---- MODULE Spec2Model ----
(***************************************************************************)
(* The synchronisation protocol of intervals.lol: the Go backend (record   *)
(* store, session authority, sync reconciler) and the JavaScript client    *)
(* (SyncService and the sync code of WorkoutContext).                      *)
(*                                                                         *)
(* Time.  The server clock is counted in ticks, TicksPerMs ticks to the    *)
(* millisecond, so that a time.Time (nanosecond resolution) is finer than  *)
(* a watermark (UnixMilli).  Timestamps are compared chronologically.      *)
(* The zero time.Time is ZeroTime, a NULL timestamp column is NullTime.    *)
(***************************************************************************)
EXTENDS Integers, Sequences, FiniteSets, TLC

\* ---------------------------------------------------------------- bounds
TicksPerMs == 2
MaxClock == 3
MaxSessions == 2
MaxUploads == 3
MaxEdits == 2
MaxAttempts == 4
MaxRunMs == 4000

\* ------------------------------------------------------------- constants
ZeroTime == -1
NullTime == -2
StatusOK == 200
StatusBadRequest == 400
StatusUnauthorized == 401
StatusNotFound == 404
StatusMethodNotAllowed == 405
StatusTooManyRequests == 429
StatusInternalServerError == 500
LoginRefillMs == 2000
LoginCapacity == 2

\* ---------------------------------------------------------------- inputs
Profiles == {"alice", "bob"}
WorkoutIds == {"t1"}
CompletionIds == {"c1"}
RemoteAddrs == {"10.0.0.1:1"}
ServerPasswords == {"", "pw"}

Interval(id, name, duration, position) ==
    [id |-> id, name |-> name, duration |-> duration, color |-> "#ff0000",
     position |-> position]

IntervalLists ==
    { << Interval("i1", "Work", 30, 0) >>,
      << Interval("i2", "Work", 30, 0), Interval("i3", "Rest", 10, 0) >> }

\* The timer records a request body may carry (models.Workout as decoded from JSON).
TimerContents ==
    { [name |-> "T", rounds |-> 2, intervals |-> << Interval("i1", "Work", 30, 0) >>],
      [name |-> "U", rounds |-> 1,
       intervals |-> << Interval("i2", "Work", 30, 0), Interval("i3", "Rest", 10, 0) >>] }

Workout(id, user, c, createdAt, updatedAt, deletedAt) ==
    [id |-> id, user_id |-> user, name |-> c.name, rounds |-> c.rounds,
     intervals |-> c.intervals, created_at |-> createdAt, updated_at |-> updatedAt,
     deleted_at |-> deletedAt]

TimerInputs ==
    { Workout(id, "", c, ZeroTime, u, d) :
        id \in WorkoutIds, c \in TimerContents, u \in {ZeroTime, 1}, d \in {NullTime, 1} }

Completion(id, user, total, elapsed, completed, startedAt, completedAt, updatedAt, deletedAt) ==
    [id |-> id, user_id |-> user, workout_id |-> "t1", workout_name |-> "T",
     total_duration |-> total, elapsed_duration |-> elapsed, completed |-> completed,
     started_at |-> startedAt, completed_at |-> completedAt, updated_at |-> updatedAt,
     deleted_at |-> deletedAt]

HistoryInputs ==
    { Completion(id, "", 60, 0, FALSE, ZeroTime, NullTime, ZeroTime, NullTime) :
        id \in CompletionIds }
    \cup { Completion(id, "", 90, 90, TRUE, 1, 1, 1, d) :
        id \in CompletionIds, d \in {NullTime, 1} }

TimerBatches ==
    { << >> } \cup { << r >> : r \in TimerInputs }
    \cup { << r1, r2 >> : r1, r2 \in { r \in TimerInputs :
                                        r.updated_at = ZeroTime /\ r.deleted_at = NullTime } }

HistoryBatches == { << >> } \cup { << r >> : r \in HistoryInputs }

\* ----------------------------------------------------------------- state
VARIABLES
    syncPasswordHash,   \* Handler.syncPasswordHash
    rlBuckets,          \* RateLimiter.buckets: key -> [tokens, lastRefill]
    sessions,           \* table sessions: token -> [user_id, created_at]
    minted,             \* number of session tokens generated so far
    workouts,           \* table workouts: id -> row
    workout_intervals,  \* table workout_intervals: interval id -> row
    completions,        \* table completions: id -> row
    sync_metadata,      \* table sync_metadata: user_id -> last_sync_time
    clock,              \* the server's time.Now(), in ticks
    author,             \* history: timer id -> profile whose upload last wrote the row
    hauthor,            \* history: history-entry id -> profile whose upload last wrote it
    issued,             \* history: token -> profile of the login that was answered with it
    revoked,            \* history: issued tokens a logout has deleted since
    devices             \* the clients: device -> state of its WorkoutProvider and SyncService

serverVars == << syncPasswordHash, rlBuckets, sessions, minted, workouts, workout_intervals,
                 completions, sync_metadata, clock, author, hauthor, issued, revoked >>

vars == << serverVars, devices >>

\* --------------------------------------------------------------- helpers
Put(f, k, v) == [x \in (DOMAIN f) \cup {k} |-> IF x = k THEN v ELSE f[x]]

Drop(f, S) == [x \in (DOMAIN f) \ S |-> f[x]]

Empty == << >>

Min(a, b) == IF a < b THEN a ELSE b

\* time.Time.UnixMilli(): whole milliseconds, the sub-millisecond part is cut off.
UnixMilli(t) == t \div TicksPerMs

\* time.UnixMilli(ms): the instant at the start of that millisecond.
TimeOfUnixMilli(ms) == ms * TicksPerMs

\* hashPassphrase: SHA-256 in hex, here an injective tagging of the passphrase.
hashPassphrase(p) == "sha256:" \o p

\* ----------------------------------------------------------- rate limiter
\* One bucket unit is the refill of one tick; a whole token is TokenUnit units.
TokenUnit == LoginRefillMs * TicksPerMs

\* A limiter that keeps its buckets as Allow does and admits every request.
AllowCountsOnly(buckets, key, now) ==
    LET bucketKey == key \o ":login"
        b == IF bucketKey \in DOMAIN buckets
                THEN buckets[bucketKey]
                ELSE [tokens |-> LoginCapacity * TokenUnit, lastRefill |-> now]
        refilled == Min(LoginCapacity * TokenUnit, b.tokens + (now - b.lastRefill))
    IN  [allowed |-> TRUE,
         buckets |-> Put(buckets, bucketKey,
                         [tokens |-> IF refilled >= TokenUnit THEN refilled - TokenUnit
                                     ELSE refilled,
                          lastRefill |-> now])]

\* RateLimiter.Allow(key, "login") at time now: [allowed, buckets].
Allow(buckets, key, now) ==
    LET bucketKey == key \o ":login"
        b == IF bucketKey \in DOMAIN buckets
                THEN buckets[bucketKey]
                ELSE [tokens |-> LoginCapacity * TokenUnit, lastRefill |-> now]
        elapsed == now - b.lastRefill
        refilled == Min(LoginCapacity * TokenUnit, b.tokens + elapsed)
    IN  IF refilled >= TokenUnit
           THEN [allowed |-> TRUE,
                 buckets |-> Put(buckets, bucketKey,
                                 [tokens |-> refilled - TokenUnit, lastRefill |-> now])]
           ELSE [allowed |-> FALSE,
                 buckets |-> Put(buckets, bucketKey,
                                 [tokens |-> refilled, lastRefill |-> now])]

\* ----------------------------------------------------------- record store
\* CreateSession: INSERT INTO sessions; the token is the primary key.
CreateSession(tbl, token, userID, now) ==
    IF token \in DOMAIN tbl
       THEN [err |-> TRUE, sessions |-> tbl]
       ELSE [err |-> FALSE, sessions |-> Put(tbl, token, [user_id |-> userID, created_at |-> now])]

\* A session check that takes every token for a session of alice.
VerifySessionAcceptsAny(tbl, token) == [err |-> FALSE, UserID |-> "alice"]

\* VerifySession: the row of the token, or an error when there is none.
VerifySession(tbl, token) ==
    IF token \in DOMAIN tbl
       THEN [err |-> FALSE, UserID |-> tbl[token].user_id]
       ELSE [err |-> TRUE, UserID |-> ""]

\* A logout that leaves the session row in place.
DeleteSessionKeepsRow(tbl, token) == tbl

\* DeleteSession: DELETE FROM sessions WHERE token = ?; no row deleted is no error.
DeleteSession(tbl, token) == Drop(tbl, {token})

\* The loop of UpsertWorkout that inserts interval i (1-based here, i-1 in the code) and
\* those after it. An interval id that is already a row violates the primary key.
RECURSIVE InsertIntervals(_, _, _, _)
InsertIntervals(tbl, workoutID, intervals, i) ==
    IF i > Len(intervals)
       THEN [err |-> FALSE, tbl |-> tbl]
       ELSE LET interval == intervals[i]
                position == IF interval.position = 0 /\ (i - 1) > 0
                               THEN i - 1
                               ELSE interval.position
            IN  IF interval.id \in DOMAIN tbl
                   THEN [err |-> TRUE, tbl |-> tbl]
                   ELSE InsertIntervals(
                            Put(tbl, interval.id,
                                [workout_id |-> workoutID, name |-> interval.name,
                                 duration |-> interval.duration, color |-> interval.color,
                                 position |-> position]),
                            workoutID, intervals, i + 1)

\* An UpsertWorkout without the DELETE of the timer's interval rows.
DeleteIntervalsKeepsRows(ivs, workoutID) == ivs

\* DELETE FROM workout_intervals WHERE workout_id = ?
DeleteIntervals(ivs, workoutID) ==
    Drop(ivs, {i \in DOMAIN ivs : ivs[i].workout_id = workoutID})

\* An upsert with ON CONFLICT(id) DO NOTHING: the first row of an id stays.
UpsertWorkoutRowIgnores(ws, workout, createdAt, updatedAt) ==
    IF workout.id \in DOMAIN ws
       THEN ws[workout.id]
       ELSE [user_id |-> workout.user_id, name |-> workout.name, rounds |-> workout.rounds,
             created_at |-> createdAt, updated_at |-> updatedAt,
             deleted_at |-> workout.deleted_at]

\* An upsert that replaces the whole row, created_at and user_id included.
UpsertWorkoutRowReplaces(ws, workout, createdAt, updatedAt) ==
    [user_id |-> workout.user_id, name |-> workout.name, rounds |-> workout.rounds,
     created_at |-> createdAt, updated_at |-> updatedAt, deleted_at |-> workout.deleted_at]

\* The INSERT ... ON CONFLICT(id) DO UPDATE of UpsertWorkout: the row after it.
UpsertWorkoutRow(ws, workout, createdAt, updatedAt) ==
    IF workout.id \in DOMAIN ws
       THEN [ws[workout.id] EXCEPT !.name = workout.name, !.rounds = workout.rounds,
                                   !.updated_at = updatedAt,
                                   !.deleted_at = workout.deleted_at]
       ELSE [user_id |-> workout.user_id, name |-> workout.name, rounds |-> workout.rounds,
             created_at |-> createdAt, updated_at |-> updatedAt,
             deleted_at |-> workout.deleted_at]

\* A failure of the database itself in one statement of UpsertWorkout: none, or the step
\* ("begin", "row", "delete", "insert" with the 1-based index of the interval, "commit").
NoFault == [step |-> "none", index |-> 0]

\* A rollback that keeps what the transaction has written so far.
RollbackKeepsWrites(ws, ivs, txws, txivs) ==
    [err |-> TRUE, workouts |-> txws, workout_intervals |-> txivs]

\* defer tx.Rollback() after an error: the tables are what they were at tx.Begin.
Rollback(ws, ivs, txws, txivs) ==
    [err |-> TRUE, workouts |-> ws, workout_intervals |-> ivs]

\* UpsertWorkout as the transaction it runs: the row is written, the interval rows of the
\* timer are deleted, the intervals are inserted one by one, and the whole is committed; the
\* first statement that fails (by a constraint or by the fault given) ends it in a rollback.
UpsertWorkoutTx(ws, ivs, workout, now, fault) ==
    LET createdAt == IF workout.created_at = ZeroTime THEN now ELSE workout.created_at
        updatedAt == IF workout.updated_at = ZeroTime THEN now ELSE workout.updated_at
        ws1 == Put(ws, workout.id, UpsertWorkoutRow(ws, workout, createdAt, updatedAt))
        ivs1 == DeleteIntervals(ivs, workout.id)
        failAt == IF fault.step = "insert" /\ fault.index <= Len(workout.intervals)
                     THEN fault.index
                     ELSE Len(workout.intervals) + 1
        before == InsertIntervals(ivs1, workout.id, SubSeq(workout.intervals, 1, failAt - 1), 1)
        ins == InsertIntervals(ivs1, workout.id, workout.intervals, 1)
    IN  IF fault.step = "begin" THEN [err |-> TRUE, workouts |-> ws, workout_intervals |-> ivs]
        ELSE IF fault.step = "row" THEN Rollback(ws, ivs, ws, ivs)
        ELSE IF fault.step = "delete" THEN Rollback(ws, ivs, ws1, ivs)
        ELSE IF before.err \/ failAt <= Len(workout.intervals)
           THEN Rollback(ws, ivs, ws1, before.tbl)
        ELSE IF fault.step = "commit" THEN Rollback(ws, ivs, ws1, ins.tbl)
        ELSE [err |-> FALSE, workouts |-> ws1, workout_intervals |-> ins.tbl]

\* UpsertWorkout on a database that works: only a constraint can fail it.
UpsertWorkout(ws, ivs, workout, now) == UpsertWorkoutTx(ws, ivs, workout, now, NoFault)

\* getIntervals: the interval rows of a timer ORDER BY position ASC. SQL leaves the order of
\* rows with equal positions open, so this is the set of the sequences the query may return.
getIntervals(ivs, workoutID) ==
    LET ids == {i \in DOMAIN ivs : ivs[i].workout_id = workoutID}
        n == Cardinality(ids)
        orders == {s \in [1..n -> ids] :
                      /\ \A j, k \in 1..n : j # k => s[j] # s[k]
                      /\ \A j, k \in 1..n : j < k => ivs[s[j]].position <= ivs[s[k]].position}
    IN  { [k \in 1..n |-> [id |-> s[k], name |-> ivs[s[k]].name,
                           duration |-> ivs[s[k]].duration, color |-> ivs[s[k]].color,
                           position |-> ivs[s[k]].position]] : s \in orders }

\* A row of workouts as a models.Workout with the interval list attached.
WorkoutOf(ws, id, intervals) ==
    [id |-> id, user_id |-> ws[id].user_id, name |-> ws[id].name, rounds |-> ws[id].rounds,
     intervals |-> intervals, created_at |-> ws[id].created_at,
     updated_at |-> ws[id].updated_at, deleted_at |-> ws[id].deleted_at]

\* A selection with updated_at >= ? in place of updated_at > ?
WorkoutsModifiedSinceIdsInclusive(ws, userID, since) ==
    {id \in DOMAIN ws : ws[id].user_id = userID /\ ws[id].updated_at >= TimeOfUnixMilli(since)}

\* The rows GetWorkoutsModifiedSince selects: WHERE user_id = ? AND updated_at > ?
WorkoutsModifiedSinceIds(ws, userID, since) ==
    {id \in DOMAIN ws : ws[id].user_id = userID /\ ws[id].updated_at > TimeOfUnixMilli(since)}

\* GetWorkoutsModifiedSince: the set of the results the query may return (one per choice of
\* interval order); a result is kept as the set of its records.
GetWorkoutsModifiedSince(ws, ivs, userID, since) ==
    LET ids == WorkoutsModifiedSinceIds(ws, userID, since)
        lists == UNION {getIntervals(ivs, id) : id \in ids}
    IN  { {WorkoutOf(ws, id, f[id]) : id \in ids} :
            f \in {g \in [ids -> lists] : \A id \in ids : g[id] \in getIntervals(ivs, id)} }

\* GetWorkout: WHERE id = ? AND user_id = ? AND deleted_at IS NULL
GetWorkoutFound(ws, userID, workoutID) ==
    /\ workoutID \in DOMAIN ws
    /\ ws[workoutID].user_id = userID
    /\ ws[workoutID].deleted_at = NullTime

\* A DeleteWorkout with WHERE id = ? alone: the profile is not looked at.
DeleteWorkoutRowOfAnyProfile(ws, userID, workoutID, now) ==
    IF workoutID \in DOMAIN ws
       THEN [ws EXCEPT ![workoutID].deleted_at = now, ![workoutID].updated_at = now]
       ELSE ws

\* A DeleteWorkout that sets deleted_at and leaves updated_at as it was.
DeleteWorkoutRowKeepsUpdatedAt(ws, userID, workoutID, now) ==
    IF workoutID \in DOMAIN ws /\ ws[workoutID].user_id = userID
       THEN [ws EXCEPT ![workoutID].deleted_at = now]
       ELSE ws

\* DeleteWorkout: UPDATE workouts SET deleted_at = now, updated_at = now
\*                WHERE id = ? AND user_id = ?
DeleteWorkoutRow(ws, userID, workoutID, now) ==
    IF workoutID \in DOMAIN ws /\ ws[workoutID].user_id = userID
       THEN [ws EXCEPT ![workoutID].deleted_at = now, ![workoutID].updated_at = now]
       ELSE ws

\* An upsert of a history entry that replaces the whole row.
UpsertCompletionReplaces(cs, completion, now) ==
    Put(cs, completion.id,
        [user_id |-> completion.user_id, workout_id |-> completion.workout_id,
         workout_name |-> completion.workout_name,
         total_duration |-> completion.total_duration,
         elapsed_duration |-> completion.elapsed_duration,
         completed |-> completion.completed,
         started_at |-> IF completion.started_at = ZeroTime THEN now
                        ELSE completion.started_at,
         completed_at |-> completion.completed_at,
         updated_at |-> IF completion.updated_at = ZeroTime THEN now
                        ELSE completion.updated_at,
         deleted_at |-> completion.deleted_at])

\* UpsertCompletion: INSERT ... ON CONFLICT(id) DO UPDATE of the mutable columns.
UpsertCompletion(cs, completion, now) ==
    LET startedAt == IF completion.started_at = ZeroTime THEN now ELSE completion.started_at
        updatedAt == IF completion.updated_at = ZeroTime THEN now ELSE completion.updated_at
    IN  IF completion.id \in DOMAIN cs
           THEN [cs EXCEPT ![completion.id].elapsed_duration = completion.elapsed_duration,
                           ![completion.id].completed = completion.completed,
                           ![completion.id].completed_at = completion.completed_at,
                           ![completion.id].updated_at = updatedAt,
                           ![completion.id].deleted_at = completion.deleted_at]
           ELSE Put(cs, completion.id,
                    [user_id |-> completion.user_id, workout_id |-> completion.workout_id,
                     workout_name |-> completion.workout_name,
                     total_duration |-> completion.total_duration,
                     elapsed_duration |-> completion.elapsed_duration,
                     completed |-> completion.completed, started_at |-> startedAt,
                     completed_at |-> completion.completed_at, updated_at |-> updatedAt,
                     deleted_at |-> completion.deleted_at])

\* A row of completions as a models.Completion.
CompletionOf(cs, id) ==
    [id |-> id, user_id |-> cs[id].user_id, workout_id |-> cs[id].workout_id,
     workout_name |-> cs[id].workout_name, total_duration |-> cs[id].total_duration,
     elapsed_duration |-> cs[id].elapsed_duration, completed |-> cs[id].completed,
     started_at |-> cs[id].started_at, completed_at |-> cs[id].completed_at,
     updated_at |-> cs[id].updated_at, deleted_at |-> cs[id].deleted_at]

\* GetCompletionsModifiedSince: WHERE user_id = ? AND updated_at > ?
GetCompletionsModifiedSince(cs, userID, since) ==
    { CompletionOf(cs, id) :
        id \in {i \in DOMAIN cs : cs[i].user_id = userID
                                  /\ cs[i].updated_at > TimeOfUnixMilli(since)} }

\* DeleteCompletion: UPDATE completions SET deleted_at = now, updated_at = now
\*                   WHERE id = ? AND user_id = ?
DeleteCompletionRow(cs, userID, completionID, now) ==
    IF completionID \in DOMAIN cs /\ cs[completionID].user_id = userID
       THEN [cs EXCEPT ![completionID].deleted_at = now, ![completionID].updated_at = now]
       ELSE cs

\* GetLastSyncTime: the stored value, 0 when there is no row.
GetLastSyncTime(md, userID) == IF userID \in DOMAIN md THEN md[userID] ELSE 0

\* An update that keeps the stored value of a row that exists (ON CONFLICT DO NOTHING).
UpdateLastSyncTimeKeepsFirst(md, userID, syncTime) ==
    IF userID \in DOMAIN md THEN md ELSE Put(md, userID, syncTime)

\* UpdateLastSyncTime: INSERT ... ON CONFLICT(user_id) DO UPDATE
UpdateLastSyncTime(md, userID, syncTime) == Put(md, userID, syncTime)

\* GetProfiles: the distinct user_id of workouts, completions and sync_metadata.
GetProfiles(ws, cs, md) ==
    {ws[i].user_id : i \in DOMAIN ws} \cup {cs[i].user_id : i \in DOMAIN cs} \cup DOMAIN md

\* ------------------------------------------------------- request inputs
NoToken == 0

\* A token a request may present: none, a minted one, or one never minted.
Tokens == 0..MaxSessions

\* Watermarks a request may carry (last_synced_at, milliseconds).
Watermarks == 0..UnixMilli(MaxClock)

Malformed == [valid |-> FALSE]

SyncPayloads(watermarks, timerBatches, historyBatches) ==
    [valid : {TRUE}, last_synced_at : watermarks, workouts : timerBatches,
     completions : historyBatches]

PasswordHashes == {"", hashPassphrase("pw"), hashPassphrase("bad"), "pw"}

AuthRequests ==
    [valid : {TRUE}, profile_name : Profiles \cup {""}, password_hash : PasswordHashes]

PasswordRequests == [valid : {TRUE}, password_hash : PasswordHashes]

\* ------------------------------------------------------------- handlers
\* The server (handler, rate limiter and store) as one value.
Server ==
    [syncPasswordHash |-> syncPasswordHash, rlBuckets |-> rlBuckets, sessions |-> sessions,
     minted |-> minted, workouts |-> workouts, workout_intervals |-> workout_intervals,
     completions |-> completions, sync_metadata |-> sync_metadata, clock |-> clock,
     author |-> author, hauthor |-> hauthor, issued |-> issued, revoked |-> revoked]

\* The server becomes S.
Install(S) ==
    /\ syncPasswordHash' = S.syncPasswordHash
    /\ rlBuckets' = S.rlBuckets
    /\ sessions' = S.sessions
    /\ minted' = S.minted
    /\ workouts' = S.workouts
    /\ workout_intervals' = S.workout_intervals
    /\ completions' = S.completions
    /\ sync_metadata' = S.sync_metadata
    /\ clock' = S.clock
    /\ author' = S.author
    /\ hauthor' = S.hauthor
    /\ issued' = S.issued
    /\ revoked' = S.revoked

\* NewHandler: the configured password is kept hashed, no password is kept as "".
NewHandler(syncPassword) == IF syncPassword # "" THEN hashPassphrase(syncPassword) ELSE ""

\* A password check that rejects nothing.
PasswordRejectedNever(S, req) == FALSE

\* The password check of AuthInit and GetProfiles: a password is required and the supplied
\* hash is not its hash.
PasswordRejected(S, req) ==
    S.syncPasswordHash # "" /\ req.password_hash # S.syncPasswordHash

\* Handler.TestConnection on server S: the server after it and the response.
TestConnection(S, method, addr, req) ==
    IF method # "POST"
       THEN [S |-> S, status |-> StatusMethodNotAllowed]
       ELSE LET rl == Allow(S.rlBuckets, addr, S.clock)
                S1 == [S EXCEPT !.rlBuckets = rl.buckets]
            IN  IF ~rl.allowed THEN [S |-> S1, status |-> StatusTooManyRequests]
                ELSE IF ~req.valid THEN [S |-> S1, status |-> StatusBadRequest]
                ELSE IF S.syncPasswordHash = ""
                   THEN [S |-> S1, status |-> StatusOK, password_required |-> FALSE]
                ELSE IF req.password_hash # S.syncPasswordHash
                   THEN [S |-> S1, status |-> StatusUnauthorized]
                ELSE [S |-> S1, status |-> StatusOK, password_required |-> TRUE]

\* Handler.AuthInit on server S: the server after it and the response. The token is two
\* fresh UUIDs, here the next number never handed out.
AuthInit(S, method, addr, req) ==
    IF method # "POST"
       THEN [S |-> S, status |-> StatusMethodNotAllowed]
       ELSE LET rl == Allow(S.rlBuckets, addr, S.clock)
                S1 == [S EXCEPT !.rlBuckets = rl.buckets]
                sessionToken == S.minted + 1
                created == CreateSession(S.sessions, sessionToken, req.profile_name, S.clock)
            IN  IF ~rl.allowed THEN [S |-> S1, status |-> StatusTooManyRequests]
                ELSE IF ~req.valid THEN [S |-> S1, status |-> StatusBadRequest]
                ELSE IF PasswordRejected(S, req)
                   THEN [S |-> S1, status |-> StatusUnauthorized]
                ELSE IF req.profile_name = "" THEN [S |-> S1, status |-> StatusBadRequest]
                ELSE IF created.err
                   THEN [S |-> [S1 EXCEPT !.minted = sessionToken],
                         status |-> StatusInternalServerError]
                ELSE [S |-> [S1 EXCEPT !.minted = sessionToken,
                                       !.sessions = created.sessions,
                                       !.issued = Put(@, sessionToken, req.profile_name)],
                      status |-> StatusOK, token |-> sessionToken]

\* Handler.Logout
Logout(S, method, token) ==
    IF method # "POST" THEN [S |-> S, status |-> StatusMethodNotAllowed]
    ELSE IF token = NoToken THEN [S |-> S, status |-> StatusUnauthorized]
    ELSE [S |-> [S EXCEPT !.sessions = DeleteSession(S.sessions, token),
                          !.revoked = @ \cup ({token} \cap DOMAIN S.issued)],
          status |-> StatusOK]

\* The first loop of Handler.Sync from record i on: each record gets the profile of the
\* session and is upserted; the first error ends the loop with the earlier upserts kept.
RECURSIVE UpsertWorkouts(_, _, _, _, _, _, _)
UpsertWorkouts(ws, ivs, au, batch, i, userID, now) ==
    IF i > Len(batch)
       THEN [err |-> FALSE, workouts |-> ws, workout_intervals |-> ivs, author |-> au]
       ELSE LET workout == [batch[i] EXCEPT !.user_id = userID]
                up == UpsertWorkout(ws, ivs, workout, now)
            IN  IF up.err
                   THEN [err |-> TRUE, workouts |-> ws, workout_intervals |-> ivs,
                         author |-> au]
                   ELSE UpsertWorkouts(up.workouts, up.workout_intervals,
                                       Put(au, workout.id, userID), batch, i + 1, userID, now)

\* The second loop of Handler.Sync from record i on.
RECURSIVE UpsertCompletions(_, _, _, _, _, _)
UpsertCompletions(cs, au, batch, i, userID, now) ==
    IF i > Len(batch)
       THEN [completions |-> cs, hauthor |-> au]
       ELSE LET completion == [batch[i] EXCEPT !.user_id = userID]
            IN  UpsertCompletions(UpsertCompletion(cs, completion, now),
                                  Put(au, completion.id, userID), batch, i + 1, userID, now)

\* Handler.Sync on server S: the set of (server after it, response) it may produce. The
\* upserts read the clock when they run; the watermark is read after the queries, d ticks
\* later (d = 0: within the same tick).
Sync(S, method, token, payload) ==
    IF method # "POST" THEN { [S |-> S, status |-> StatusMethodNotAllowed] }
    ELSE IF token = NoToken \/ VerifySession(S.sessions, token).err
       THEN { [S |-> S, status |-> StatusUnauthorized] }
    ELSE IF ~payload.valid THEN { [S |-> S, status |-> StatusBadRequest] }
    ELSE LET UserID == VerifySession(S.sessions, token).UserID
             ups == UpsertWorkouts(S.workouts, S.workout_intervals, S.author,
                                   payload.workouts, 1, UserID, S.clock)
             S1 == [S EXCEPT !.workouts = ups.workouts,
                             !.workout_intervals = ups.workout_intervals,
                             !.author = ups.author]
             upc == UpsertCompletions(S.completions, S.hauthor, payload.completions, 1,
                                      UserID, S.clock)
             S2 == [S1 EXCEPT !.completions = upc.completions, !.hauthor = upc.hauthor]
         IN  IF ups.err
                THEN { [S |-> S1, status |-> StatusInternalServerError] }
                ELSE { [S |-> [S2 EXCEPT !.clock = S.clock + d,
                                         !.sync_metadata =
                                             UpdateLastSyncTime(S.sync_metadata, UserID,
                                                                UnixMilli(S.clock + d))],
                        status |-> StatusOK,
                        last_synced_at |-> UnixMilli(S.clock + d),
                        workouts |-> timers,
                        completions |-> GetCompletionsModifiedSince(
                                            S2.completions, UserID, payload.last_synced_at)] :
                       d \in {e \in 0..1 : S.clock + e <= MaxClock},
                       timers \in GetWorkoutsModifiedSince(S2.workouts, S2.workout_intervals,
                                                           UserID, payload.last_synced_at) }

\* Handler.GetWorkout
GetWorkout(S, method, token, workoutID) ==
    IF method # "GET" THEN { [S |-> S, status |-> StatusMethodNotAllowed] }
    ELSE IF token = NoToken \/ VerifySession(S.sessions, token).err
       THEN { [S |-> S, status |-> StatusUnauthorized] }
    ELSE LET UserID == VerifySession(S.sessions, token).UserID
         IN  IF ~GetWorkoutFound(S.workouts, UserID, workoutID)
                THEN { [S |-> S, status |-> StatusNotFound] }
                ELSE { [S |-> S, status |-> StatusOK,
                        workout |-> WorkoutOf(S.workouts, workoutID, intervals)] :
                       intervals \in getIntervals(S.workout_intervals, workoutID) }

\* Handler.DeleteWorkout
DeleteWorkout(S, method, token, workoutID) ==
    IF method # "DELETE" THEN [S |-> S, status |-> StatusMethodNotAllowed]
    ELSE IF token = NoToken \/ VerifySession(S.sessions, token).err
       THEN [S |-> S, status |-> StatusUnauthorized]
    ELSE LET UserID == VerifySession(S.sessions, token).UserID
         IN  [S |-> [S EXCEPT !.workouts = DeleteWorkoutRow(S.workouts, UserID, workoutID,
                                                            S.clock)],
              status |-> StatusOK]

\* Handler.DeleteCompletion
DeleteCompletion(S, method, token, completionID) ==
    IF method # "DELETE" THEN [S |-> S, status |-> StatusMethodNotAllowed]
    ELSE IF token = NoToken \/ VerifySession(S.sessions, token).err
       THEN [S |-> S, status |-> StatusUnauthorized]
    ELSE LET UserID == VerifySession(S.sessions, token).UserID
         IN  [S |-> [S EXCEPT !.completions = DeleteCompletionRow(S.completions, UserID,
                                                                  completionID, S.clock)],
              status |-> StatusOK]

\* Handler.GetProfiles
GetProfilesHandler(S, method, addr, req) ==
    IF method # "POST"
       THEN [S |-> S, status |-> StatusMethodNotAllowed]
       ELSE LET rl == Allow(S.rlBuckets, addr, S.clock)
                S1 == [S EXCEPT !.rlBuckets = rl.buckets]
            IN  IF ~rl.allowed THEN [S |-> S1, status |-> StatusTooManyRequests]
                ELSE IF ~req.valid THEN [S |-> S1, status |-> StatusBadRequest]
                ELSE IF PasswordRejected(S, req)
                   THEN [S |-> S1, status |-> StatusUnauthorized]
                ELSE [S |-> S1, status |-> StatusOK,
                      profiles |-> GetProfiles(S.workouts, S.completions, S.sync_metadata)]

\* ------------------------------------------------------------- actions
\* A request to /api/auth/init is handled.
DoAuthInit(method, addr, req) ==
    /\ minted < MaxSessions
    /\ Install(AuthInit(Server, method, addr, req).S)
    /\ UNCHANGED devices

\* A request to /api/auth/test is handled.
DoTestConnection(method, addr, req) ==
    /\ Install(TestConnection(Server, method, addr, req).S)
    /\ UNCHANGED devices

\* A request to /api/profiles is handled.
DoGetProfiles(method, addr, req) ==
    /\ Install(GetProfilesHandler(Server, method, addr, req).S)
    /\ UNCHANGED devices

\* A request to /api/auth/logout is handled.
DoLogout(method, token) ==
    /\ Install(Logout(Server, method, token).S)
    /\ UNCHANGED devices

\* A request to /api/sync is handled.
DoSync(method, token, payload) ==
    /\ \E o \in Sync(Server, method, token, payload) : Install(o.S)
    /\ UNCHANGED devices

\* A request DELETE /api/workouts/:id is handled.
DoDeleteWorkout(method, token, id) ==
    /\ Install(DeleteWorkout(Server, method, token, id).S)
    /\ UNCHANGED devices

\* A request DELETE /api/completions/:id is handled.
DoDeleteCompletion(method, token, id) ==
    /\ Install(DeleteCompletion(Server, method, token, id).S)
    /\ UNCHANGED devices

\* Time passes on the server.
Tick ==
    /\ clock < MaxClock
    /\ clock' = clock + 1
    /\ UNCHANGED << syncPasswordHash, rlBuckets, sessions, minted, workouts,
                    workout_intervals, completions, sync_metadata, author, hauthor,
                    issued, revoked, devices >>

\* -------------------------------------------------------------- client
\* The status of a fetch that threw: the request did not reach the server.
NetworkError == 0

\* No request in flight, no timer pending.
NoCall == [pending |-> FALSE]

\* The address the requests of a device come from.
DeviceAddr(d) == "10.0.0.9:" \o d

\* The delay of the timer of the auto-sync effect, and of the follow-up that
\* SyncService.sync schedules for an owed sync.
DebounceMs == 5000
OwedDelayMs == 0

\* localStorage without the item.
NoItem == -1

\* A device after new SyncService() and the first render of WorkoutProvider, nothing in
\* localStorage. workouts is the React state (an array of objects); debounce holds the
\* pending timers of the auto-sync effect, each with the array of its render; syncTimeout is
\* the timer of scheduleSyncDebounced with its arguments; authCall and syncCall are the
\* fetches in flight with the closures that wait for them; storage is localStorage;
\* authenticated is syncStatus.authenticated.
\* History: edits counts the changes the user made on the device; created and edited are the
\* ids the user created and edited on it, deleted the ids of the synced timers the user
\* deleted on it while no request was in flight; deletedSynced the deleted ids after whose
\* deletion a sync of the device succeeded; pulledAfter the ids in deletedSynced of another
\* device when a sync of this device was sent that then succeeded; switched: the last login
\* was a finished switchProfile; flights counts the sync requests sent and not yet answered;
\* burst counts the user's changes since a timer of the auto-sync effect last fired or the
\* array was last set by a response; collision is the last call of sync that found another
\* one in flight, and whether a sync has failed since.
NewDevice ==
    [workouts |-> << >>, backendURL |-> FALSE, token |-> NoToken, userId |-> "",
     lastSyncTime |-> 0, syncing |-> FALSE, syncScheduled |-> FALSE, syncTimeout |-> NoCall,
     debounce |-> {}, authCall |-> NoCall, syncCall |-> NoCall,
     storage |-> [syncToken |-> NoItem, syncLastSyncTime |-> NoItem],
     authenticated |-> FALSE,
     edits |-> 0, created |-> {}, edited |-> {}, deleted |-> {}, deletedSynced |-> {},
     pulledAfter |-> {}, switched |-> FALSE, flights |-> 0, burst |-> 0,
     collision |-> NoCall]

\* createWorkout: the new object has no field the server reads but id, name, rounds and
\* intervals (createdAt and updatedAt are not fields of models.Workout). owner is history:
\* the profile the device was signed in to.
CreatedWorkout(id, owner) ==
    [id |-> id, user_id |-> "", name |-> "T", rounds |-> 1, intervals |-> << >>,
     created_at |-> ZeroTime, updated_at |-> ZeroTime, deleted_at |-> NullTime,
     deletedAt |-> NullTime, owner |-> owner]

\* JSON.stringify on the client and Decode into models.Workout on the server.
EncodeWorkout(w) ==
    [id |-> w.id, user_id |-> w.user_id, name |-> w.name, rounds |-> w.rounds,
     intervals |-> w.intervals, created_at |-> w.created_at, updated_at |-> w.updated_at,
     deleted_at |-> w.deleted_at]

\* response.json() of a models.Workout: the object has the fields of the JSON, deletedAt is
\* not one of them.
DecodeWorkout(r) ==
    [id |-> r.id, user_id |-> r.user_id, name |-> r.name, rounds |-> r.rounds,
     intervals |-> r.intervals, created_at |-> r.created_at, updated_at |-> r.updated_at,
     deleted_at |-> r.deleted_at, deletedAt |-> NullTime, owner |-> r.user_id]

\* The arrays a response may carry for a result of GetWorkoutsModifiedSince:
\* ORDER BY updated_at DESC.
ResponseOrders(rs) ==
    LET n == Cardinality(rs)
    IN  { [k \in 1..n |-> DecodeWorkout(f[k])] :
            f \in {g \in [1..n -> rs] :
                      /\ \A j, k \in 1..n : j # k => g[j] # g[k]
                      /\ \A j, k \in 1..n : j < k => g[j].updated_at >= g[k].updated_at} }

\* What the client reads of a response.
Answer(o) ==
    IF o.status = StatusOK
       THEN [status |-> o.status, last_synced_at |-> o.last_synced_at,
             workouts |-> o.workouts]
       ELSE [status |-> o.status]

\* SyncService.isAuthenticated
IsAuthenticated(dv) == dv.token # NoToken /\ dv.backendURL

\* The timer the auto-sync effect sets in a render whose array is ws.
DebounceTimer(ws) == [workouts |-> ws, delayMs |-> DebounceMs]

\* An auto-sync effect whose cleanup does not clear the timer of the render before.
SetWorkoutsKeepsTimer(dv, ws) ==
    [dv EXCEPT !.workouts = ws, !.burst = 0,
               !.debounce = IF IsAuthenticated(dv) THEN @ \cup {DebounceTimer(ws)} ELSE @]

\* setWorkouts(ws) and the auto-sync effect that runs after it: the cleanup of the effect
\* clears the pending timer, and the effect sets a new one when isAuthenticated().
SetWorkouts(dv, ws) ==
    [dv EXCEPT !.workouts = ws, !.burst = 0,
               !.debounce = IF IsAuthenticated(dv) THEN {DebounceTimer(ws)} ELSE {}]

\* The user's change of the array: setWorkouts(ws), counted in the history.
UserSets(dv, ws) ==
    [SetWorkouts(dv, ws) EXCEPT !.edits = dv.edits + 1,
                                !.burst = IF IsAuthenticated(dv) THEN dv.burst + 1 ELSE 0]

\* The merge of the auto-sync effect and of initializeSync.
Merge(local, server) ==
    LET serverIds == {server[k].id : k \in 1..Len(server)}
    IN  SelectSeq(local, LAMBDA w : w.id \notin serverIds) \o server

\* The result of a sync that did not succeed.
Failed(error) ==
    [success |-> FALSE, workouts |-> << >>, error |-> error,
     authExpired |-> (error = "Session expired")]

\* The result of a sync that succeeded.
Succeeded(ws) == [success |-> TRUE, workouts |-> ws, error |-> "", authExpired |-> FALSE]

\* What the caller of syncService.sync does with its result: the auto-sync effect and
\* initializeSync merge a response that is not empty into the array of their render,
\* switchProfile replaces the array; the follow-up of an owed sync has no caller.
AfterSync(dv, origin, closure, result) ==
    IF origin = "auto"
       THEN IF ~result.success
               THEN [dv EXCEPT !.authenticated = IF result.authExpired THEN FALSE ELSE @]
            ELSE IF Len(result.workouts) > 0
               THEN SetWorkouts(dv, Merge(closure, result.workouts))
            ELSE dv
    ELSE IF origin = "init"
       THEN IF result.success /\ Len(result.workouts) > 0
               THEN SetWorkouts(dv, Merge(closure, result.workouts))
               ELSE dv
    ELSE IF origin = "switch"
       THEN [ (IF result.success
                  THEN SetWorkouts(dv, SelectSeq(result.workouts,
                                                 LAMBDA w : w.deletedAt = NullTime))
                  ELSE SetWorkouts(dv, << >>))
              EXCEPT !.switched = TRUE, !.authenticated = TRUE ]
    ELSE dv

\* A sync service that never finds a sync in flight.
BusyNever(dv) == FALSE

\* SyncService.sync: a sync is in flight.
Busy(dv) == dv.syncing

\* The body of the request of SyncService.sync(args): the watermark in memory and the arrays.
SyncRequest(dv, args) ==
    [valid |-> TRUE, last_synced_at |-> dv.lastSyncTime,
     workouts |-> [k \in 1..Len(args) |-> EncodeWorkout(args[k])],
     completions |-> << >>]

\* SyncService.sync(args) called on device dv with server S, up to the fetch: the pairs of
\* device and server after it. A request that is sent is handled by the server at once; its
\* response waits in syncCall. due is history (the deletions other devices have synced).
SyncServiceSync(dv, S, origin, args, closure, due) ==
    IF ~dv.backendURL \/ dv.token = NoToken
       THEN { [dv |-> AfterSync(dv, origin, closure, Failed("Not authenticated")), S |-> S] }
    ELSE IF Busy(dv)
       THEN { [dv |-> AfterSync([dv EXCEPT !.syncScheduled = TRUE,
                                           !.collision = [pending |-> TRUE, workouts |-> args,
                                                          failed |-> FALSE]],
                                origin, closure, Failed("Sync already in progress")),
               S |-> S] }
    ELSE LET payload == SyncRequest(dv, args)
             sent == [dv EXCEPT !.syncing = TRUE, !.syncScheduled = FALSE,
                                !.flights = @ + 1]
             call(out) == [pending |-> TRUE, origin |-> origin, workouts |-> args,
                           closure |-> closure, out |-> out, deleted |-> dv.deleted,
                           due |-> due]
         IN  { [dv |-> [sent EXCEPT !.syncCall = call(Answer(o))], S |-> o.S] :
                   o \in Sync(S, "POST", dv.token, payload) }
             \cup { [dv |-> [sent EXCEPT !.syncCall = call([status |-> NetworkError])],
                     S |-> S] }

\* History: the deletions the other devices have synced.
Due(d) == UNION {devices[e].deletedSynced : e \in (DOMAIN devices) \ {d}}

\* The device and the server become those of r.
InstallBoth(d, r) ==
    /\ devices' = [devices EXCEPT ![d] = r.dv]
    /\ Install(r.S)

\* The user creates a timer on device d; the id is a fresh UUID.
CreateWorkout(d, id) ==
    LET dv == devices[d]
    IN  /\ dv.edits < MaxEdits
        /\ \A e \in DOMAIN devices : id \notin devices[e].created
        /\ devices' = [devices EXCEPT ![d] =
               [UserSets(dv, Append(dv.workouts, CreatedWorkout(id, dv.userId)))
                   EXCEPT !.created = @ \cup {id}]]
        /\ UNCHANGED serverVars

\* The user edits a timer of device d: updateWorkout(id, updates).
UpdateWorkout(d, id, updates) ==
    LET dv == devices[d]
    IN  /\ dv.edits < MaxEdits
        /\ \E k \in 1..Len(dv.workouts) : dv.workouts[k].id = id
        /\ devices' = [devices EXCEPT ![d] =
               [UserSets(dv, [k \in 1..Len(dv.workouts) |->
                                   IF dv.workouts[k].id = id
                                      THEN [dv.workouts[k] EXCEPT
                                               !.name = updates.name,
                                               !.rounds = updates.rounds,
                                               !.intervals = updates.intervals]
                                      ELSE dv.workouts[k]])
                   EXCEPT !.edited = @ \cup {id}]]
        /\ UNCHANGED serverVars

\* History: no request of the device is in flight.
AtRest(dv) == ~dv.authCall.pending /\ ~dv.syncCall.pending

\* History: the copy of timer id on the device came from the server.
HoldsSynced(dv, id) ==
    \E k \in 1..Len(dv.workouts) : dv.workouts[k].id = id /\ dv.workouts[k].user_id # ""

\* The user deletes a timer of device d: deleteWorkout(id).
DeleteWorkoutLocal(d, id) ==
    LET dv == devices[d]
    IN  /\ dv.edits < MaxEdits
        /\ \E k \in 1..Len(dv.workouts) : dv.workouts[k].id = id
        /\ devices' = [devices EXCEPT ![d] =
               [UserSets(dv, SelectSeq(dv.workouts, LAMBDA w : w.id # id))
                   EXCEPT !.deleted = IF AtRest(dv) /\ HoldsSynced(dv, id)
                                         THEN @ \cup {id} ELSE @]]
        /\ UNCHANGED serverVars

\* initializeSync(profile) or switchProfile(profile) on device d up to the fetch of
\* SyncService.initialize; the server handles the request at once.
StartAuth(d, origin, profile) ==
    LET dv == devices[d]
        o == AuthInit(Server, "POST", DeviceAddr(d),
                      [valid |-> TRUE, profile_name |-> profile, password_hash |-> ""])
    IN  /\ ~dv.authCall.pending
        /\ minted < MaxSessions
        /\ devices' = [devices EXCEPT ![d] =
               [dv EXCEPT !.backendURL = TRUE,
                          !.authCall = [pending |-> TRUE, origin |-> origin,
                                        profile |-> profile, closure |-> dv.workouts,
                                        out |-> IF o.status = StatusOK
                                                   THEN [status |-> o.status,
                                                         token |-> o.token]
                                                   ELSE [status |-> o.status]]]]
        /\ Install(o.S)

\* The user signs device d in: initializeSync(profile, backendURL).
InitializeSync(d, profile) == StartAuth(d, "init", profile)

\* The user switches device d to another profile: switchProfile(profile).
SwitchProfile(d, profile) ==
    /\ devices[d].backendURL
    /\ profile # devices[d].userId
    /\ StartAuth(d, "switch", profile)

\* The response to auth/init arrives at device d: SyncService.initialize stores the session
\* and its caller goes on, initializeSync with sync(workouts, completions) of its render,
\* switchProfile with the watermark reset and sync([], []).
AuthReturns(d) ==
    LET dv == devices[d]
        call == dv.authCall
        in == [dv EXCEPT !.authCall = NoCall, !.token = call.out.token,
                         !.userId = call.profile, !.switched = FALSE,
                         !.storage.syncToken = call.out.token]
    IN  /\ call.pending
        /\ IF call.out.status # StatusOK
              THEN /\ devices' = [devices EXCEPT ![d].authCall = NoCall]
                   /\ UNCHANGED serverVars
              ELSE IF call.origin = "init"
                 THEN \E r \in SyncServiceSync([in EXCEPT !.authenticated = TRUE], Server,
                                               "init", call.closure, call.closure, Due(d)) :
                          InstallBoth(d, r)
                 ELSE \E r \in SyncServiceSync([in EXCEPT !.lastSyncTime = 0,
                                                          !.storage.syncLastSyncTime = 0],
                                               Server, "switch", << >>, << >>, Due(d)) :
                          InstallBoth(d, r)

\* A timer of the auto-sync effect of device d fires: sync with the array of its render.
DebounceFires(d) ==
    LET dv == devices[d]
    IN  \E tm \in dv.debounce :
            \E r \in SyncServiceSync([dv EXCEPT !.debounce = @ \ {tm}, !.burst = 0], Server,
                                      "auto", tm.workouts, tm.workouts, Due(d)) :
                InstallBoth(d, r)

\* The timer of scheduleSyncDebounced of device d fires: sync with the arguments it holds.
SyncTimeoutFires(d) ==
    LET dv == devices[d]
    IN  /\ dv.syncTimeout.pending
        /\ \E r \in SyncServiceSync([dv EXCEPT !.syncTimeout = NoCall], Server, "owed",
                                    dv.syncTimeout.workouts, << >>, Due(d)) :
               InstallBoth(d, r)

\* The arrays the response in flight may carry.
PendingOrders(dv) ==
    IF dv.syncCall.out.status = StatusOK
       THEN ResponseOrders(dv.syncCall.out.workouts) ELSE { << >> }

\* What SyncService.sync returns for the response in flight when it carries the array ws.
SyncResult(dv, ws) ==
    IF dv.syncCall.out.status = StatusOK THEN Succeeded(ws)
    ELSE IF dv.syncCall.out.status = StatusUnauthorized THEN Failed("Session expired")
    ELSE Failed("Sync failed")

\* SyncService.handleAuthExpired with the onAuthExpired callback of WorkoutProvider.
HandleAuthExpired(dv) ==
    [dv EXCEPT !.token = NoToken, !.userId = "",
               !.storage = [syncToken |-> NoItem, syncLastSyncTime |-> NoItem],
               !.authenticated = FALSE]

\* The device after the fetch of its sync has ended with the array ws: the rest of
\* SyncService.sync, its finally block and what its caller does with the result.
SyncEnds(dv, ws) ==
    LET call == dv.syncCall
        seen == IF call.out.status # StatusOK /\ dv.collision.pending
                   THEN [dv EXCEPT !.collision.failed = TRUE] ELSE dv
        dv1 == IF call.out.status = StatusUnauthorized THEN HandleAuthExpired(seen)
               ELSE IF call.out.status = StatusOK
                  THEN LET w == IF call.out.last_synced_at # 0
                                   THEN call.out.last_synced_at ELSE UnixMilli(clock)
                       IN  [seen EXCEPT !.lastSyncTime = w,
                                        !.storage.syncLastSyncTime = w,
                                        !.deletedSynced = @ \cup call.deleted,
                                        !.pulledAfter = @ \cup call.due]
               ELSE seen
        dv2 == [dv1 EXCEPT !.syncing = FALSE, !.syncCall = NoCall, !.flights = @ - 1,
                           !.syncTimeout =
                               IF dv1.syncScheduled
                                  THEN [pending |-> TRUE, workouts |-> call.workouts,
                                        delayMs |-> OwedDelayMs]
                                  ELSE @]
    IN  AfterSync(dv2, call.origin, call.closure, SyncResult(dv, ws))

\* The fetch of SyncService.sync of device d ends.
SyncReturns(d) ==
    /\ devices[d].syncCall.pending
    /\ \E ws \in PendingOrders(devices[d]) :
           devices' = [devices EXCEPT ![d] = SyncEnds(devices[d], ws)]
    /\ UNCHANGED serverVars

\* ------------------------------------------------------- specifications
\* The server after NewSQLiteStore, NewRateLimiter and NewHandler: empty tables, no bucket.
ServerInit(passwords) ==
    /\ syncPasswordHash \in {NewHandler(p) : p \in passwords}
    /\ rlBuckets = Empty
    /\ sessions = Empty
    /\ minted = 0
    /\ workouts = Empty
    /\ workout_intervals = Empty
    /\ completions = Empty
    /\ sync_metadata = Empty
    /\ clock = TicksPerMs
    /\ author = Empty
    /\ hauthor = Empty
    /\ issued = Empty
    /\ revoked = {}

\* A server alone: its callers are the requests themselves.
NoDevices == devices = Empty

LoginRequests == [valid : {TRUE}, profile_name : Profiles, password_hash : {""}]

\* Spec: the timer side of the HTTP API of a server without password, driven by callers of
\* two profiles. The watermark of a request decides the response only, so the requests that
\* drive the server all carry 0; the properties range over every watermark.
Init == ServerInit({""}) /\ NoDevices

Next ==
    \/ \E a \in RemoteAddrs, req \in LoginRequests : DoAuthInit("POST", a, req)
    \/ \E t \in Tokens, p \in SyncPayloads({0}, TimerBatches, { << >> }) :
           DoSync("POST", t, p)
    \/ \E t \in Tokens, id \in WorkoutIds : DoDeleteWorkout("DELETE", t, id)
    \/ Tick

Spec == Init /\ [][Next]_vars

\* SpecHistory: the history side of the same API.
NextHistory ==
    \/ \E a \in RemoteAddrs, req \in LoginRequests : DoAuthInit("POST", a, req)
    \/ \E t \in Tokens, p \in SyncPayloads({0}, { << >> }, HistoryBatches) :
           DoSync("POST", t, p)
    \/ \E t \in Tokens, id \in CompletionIds : DoDeleteCompletion("DELETE", t, id)
    \/ Tick

SpecHistory == Init /\ [][NextHistory]_vars

\* SpecAuth: the session authority of a server with or without password: logins, connection
\* tests, profile lists and logouts from two addresses.
AuthAddrs == {"10.0.0.1:1", "10.0.0.2:1"}

InitAuth == ServerInit(ServerPasswords) /\ NoDevices

NextAuth ==
    \/ \E m \in {"POST", "GET"}, a \in AuthAddrs, req \in AuthRequests \cup {Malformed} :
           DoAuthInit(m, a, req)
    \/ \E a \in AuthAddrs, req \in PasswordRequests \cup {Malformed} :
           DoTestConnection("POST", a, req)
    \/ \E a \in AuthAddrs, req \in PasswordRequests \cup {Malformed} :
           DoGetProfiles("POST", a, req)
    \/ \E t \in Tokens : DoLogout("POST", t)
    \/ Tick

SpecAuth == InitAuth /\ [][NextAuth]_vars

\* SpecDelete: timers and history entries together, for the devices of one profile: records
\* are uploaded as new clients send them (no timestamps of their own) and deleted through
\* the delete endpoints.
OneProfileLogins == [valid : {TRUE}, profile_name : {"alice"}, password_hash : {""}]

FreshTimerBatches ==
    { << >> } \cup { << r >> : r \in { x \in TimerInputs : x.updated_at = ZeroTime
                                                        /\ x.deleted_at = NullTime } }

FreshHistoryBatches ==
    { << >> } \cup { << r >> : r \in { x \in HistoryInputs : x.deleted_at = NullTime } }

NextDelete ==
    \/ \E a \in RemoteAddrs, req \in OneProfileLogins : DoAuthInit("POST", a, req)
    \/ \E t \in Tokens, p \in SyncPayloads({0}, FreshTimerBatches, FreshHistoryBatches) :
           DoSync("POST", t, p)
    \/ \E t \in Tokens, id \in WorkoutIds : DoDeleteWorkout("DELETE", t, id)
    \/ \E t \in Tokens, id \in CompletionIds : DoDeleteCompletion("DELETE", t, id)
    \/ Tick

SpecDelete == Init /\ [][NextDelete]_vars

\* SpecRevoke: SpecDelete with logouts, so that sessions are revoked while records are stored.
NextRevoke ==
    \/ NextDelete
    \/ \E t \in Tokens : DoLogout("POST", t)

SpecRevoke == Init /\ [][NextRevoke]_vars

\* SpecDevices: two devices of the profile alice that sign in and sync; the user creates,
\* edits and deletes timers on the first, the second follows.
Editors == {"d1"}

InitDevices == ServerInit({""}) /\ devices = [d \in {"d1", "d2"} |-> NewDevice]

NextDevices ==
    \/ \E d \in Editors, id \in WorkoutIds : CreateWorkout(d, id)
    \/ \E d \in Editors, id \in WorkoutIds, c \in TimerContents :
           UpdateWorkout(d, id, c)
    \/ \E d \in Editors, id \in WorkoutIds : DeleteWorkoutLocal(d, id)
    \/ \E d \in DOMAIN devices : InitializeSync(d, "alice")
    \/ \E d \in DOMAIN devices : AuthReturns(d)
    \/ \E d \in DOMAIN devices : DebounceFires(d)
    \/ \E d \in DOMAIN devices : SyncTimeoutFires(d)
    \/ \E d \in DOMAIN devices : SyncReturns(d)
    \/ Tick

SpecDevices == InitDevices /\ [][NextDevices]_vars

\* SpecSwitch: one device that signs in and switches between the profiles.
InitSwitch == ServerInit({""}) /\ devices = [d \in {"d1"} |-> NewDevice]

NextSwitch ==
    \/ \E d \in DOMAIN devices, id \in WorkoutIds : CreateWorkout(d, id)
    \/ \E d \in DOMAIN devices, id \in WorkoutIds, c \in TimerContents :
           UpdateWorkout(d, id, c)
    \/ \E d \in DOMAIN devices, id \in WorkoutIds : DeleteWorkoutLocal(d, id)
    \/ \E d \in DOMAIN devices, p \in Profiles : InitializeSync(d, p)
    \/ \E d \in DOMAIN devices, p \in Profiles : SwitchProfile(d, p)
    \/ \E d \in DOMAIN devices : AuthReturns(d)
    \/ \E d \in DOMAIN devices : DebounceFires(d)
    \/ \E d \in DOMAIN devices : SyncTimeoutFires(d)
    \/ \E d \in DOMAIN devices : SyncReturns(d)
    \/ Tick

SpecSwitch == InitSwitch /\ [][NextSwitch]_vars

\* SpecShared: one device of a build with a configured backend URL (VITE_SYNC_URL), beside
\* another client of the profile alice that uses the API directly: it signs in, uploads and
\* deletes the timer t1. The timers the device creates have ids of their own.
DeviceIds == {"t2"}

ConfiguredDevice == [NewDevice EXCEPT !.backendURL = TRUE]

ApiTimerBatches ==
    { << Workout(id, "", [name |-> "T", rounds |-> 1, intervals |-> << >>],
                 ZeroTime, ZeroTime, NullTime) >> : id \in WorkoutIds }

InitShared == ServerInit({""}) /\ devices = [d \in {"d1"} |-> ConfiguredDevice]

NextShared ==
    \/ \E a \in RemoteAddrs, req \in OneProfileLogins : DoAuthInit("POST", a, req)
    \/ \E t \in Tokens, p \in SyncPayloads({0}, ApiTimerBatches, { << >> }) :
           DoSync("POST", t, p)
    \/ \E t \in Tokens, id \in WorkoutIds : DoDeleteWorkout("DELETE", t, id)
    \/ \E d \in DOMAIN devices, id \in DeviceIds : CreateWorkout(d, id)
    \/ \E d \in DOMAIN devices : InitializeSync(d, "alice")
    \/ \E d \in DOMAIN devices : SwitchProfile(d, "alice")
    \/ \E d \in DOMAIN devices : AuthReturns(d)
    \/ \E d \in DOMAIN devices : DebounceFires(d)
    \/ \E d \in DOMAIN devices : SyncTimeoutFires(d)
    \/ \E d \in DOMAIN devices : SyncReturns(d)
    \/ Tick

SpecShared == InitShared /\ [][NextShared]_vars

\* SpecExpiry: one device that signs in as alice, is edited and syncs, while sessions are
\* logged out on the server.
NextExpiry ==
    \/ \E d \in DOMAIN devices, id \in WorkoutIds : CreateWorkout(d, id)
    \/ \E d \in DOMAIN devices : InitializeSync(d, "alice")
    \/ \E d \in DOMAIN devices : AuthReturns(d)
    \/ \E d \in DOMAIN devices : DebounceFires(d)
    \/ \E d \in DOMAIN devices : SyncTimeoutFires(d)
    \/ \E d \in DOMAIN devices : SyncReturns(d)
    \/ \E t \in Tokens : DoLogout("POST", t)
    \/ Tick

SpecExpiry == InitSwitch /\ [][NextExpiry]_vars

\* SpecFlight: one device whose user creates and renames timers, signs in as alice and
\* switches to bob, with every timer and response of the client in any order.
Renamed == [name |-> "U", rounds |-> 2, intervals |-> << >>]

NextFlight ==
    \/ \E d \in DOMAIN devices, id \in WorkoutIds : CreateWorkout(d, id)
    \/ \E d \in DOMAIN devices, id \in WorkoutIds : UpdateWorkout(d, id, Renamed)
    \/ \E d \in DOMAIN devices : InitializeSync(d, "alice")
    \/ \E d \in DOMAIN devices : SwitchProfile(d, "bob")
    \/ \E d \in DOMAIN devices : AuthReturns(d)
    \/ \E d \in DOMAIN devices : DebounceFires(d)
    \/ \E d \in DOMAIN devices : SyncTimeoutFires(d)
    \/ \E d \in DOMAIN devices : SyncReturns(d)
    \/ Tick

SpecFlight == InitSwitch /\ [][NextFlight]_vars

\* SpecStore: the record store alone, called the way its own tests call it: the caller names
\* the profile and supplies interval positions of its own, and the database may fail
\* UpsertWorkout. SpecStoreTimers, below, has the timers with timestamps of the caller.
StoreIds == {"t1", "t2"}

StoreContents ==
    { [name |-> "T", rounds |-> 2, intervals |-> << Interval("i1", "Work", 30, 0) >>],
      [name |-> "U", rounds |-> 1,
       intervals |-> << Interval("i2", "Work", 30, 0), Interval("i3", "Rest", 10, 0) >>],
      [name |-> "V", rounds |-> 1,
       intervals |-> << Interval("i2", "Work", 30, 2), Interval("i3", "Rest", 10, 1) >>] }

\* The timers the calls that drive the store carry: t1 in every variety, t2 as one record of
\* bob whose interval has the id of an interval of t1.
StoreTimers ==
    { Workout("t1", u, c, ca, ua, NullTime) :
        u \in Profiles, c \in StoreContents, ca \in {ZeroTime, 1}, ua \in {ZeroTime, 1} }
    \cup { Workout("t2", "bob", [name |-> "T", rounds |-> 2,
                                 intervals |-> << Interval("i1", "Work", 30, 0) >>],
                    ZeroTime, ZeroTime, NullTime) }

StoreHistory ==
    { Completion(id, u, 60, 0, FALSE, ZeroTime, NullTime, ZeroTime, NullTime) :
        id \in CompletionIds, u \in Profiles }

Faults ==
    {NoFault} \cup [step : {"begin", "row", "delete", "commit"}, index : {0}]
    \cup [step : {"insert"}, index : 1..2]

\* The faults of the calls that drive the store; every failed call ends in the same rollback.
StoreFaults == {NoFault, [step |-> "commit", index |-> 0]}

\* store.UpsertWorkout(workout) is called.
StoreUpsertWorkout(workout, fault) ==
    LET up == UpsertWorkoutTx(workouts, workout_intervals, workout, clock, fault)
    IN  /\ workouts' = up.workouts
        /\ workout_intervals' = up.workout_intervals
        /\ author' = IF up.err THEN author ELSE Put(author, workout.id, workout.user_id)
        /\ UNCHANGED << syncPasswordHash, rlBuckets, sessions, minted, completions,
                        sync_metadata, clock, hauthor, issued, revoked, devices >>

\* store.DeleteWorkout(userID, workoutID) is called.
StoreDeleteWorkout(userID, workoutID) ==
    /\ workouts' = DeleteWorkoutRow(workouts, userID, workoutID, clock)
    /\ UNCHANGED << syncPasswordHash, rlBuckets, sessions, minted, workout_intervals,
                    completions, sync_metadata, clock, author, hauthor, issued, revoked,
                    devices >>

\* store.UpsertCompletion(completion) is called.
StoreUpsertCompletion(completion) ==
    /\ completions' = UpsertCompletion(completions, completion, clock)
    /\ hauthor' = Put(hauthor, completion.id, completion.user_id)
    /\ UNCHANGED << syncPasswordHash, rlBuckets, sessions, minted, workouts,
                    workout_intervals, sync_metadata, clock, author, issued, revoked,
                    devices >>

\* store.DeleteCompletion(userID, completionID) is called.
StoreDeleteCompletion(userID, completionID) ==
    /\ completions' = DeleteCompletionRow(completions, userID, completionID, clock)
    /\ UNCHANGED << syncPasswordHash, rlBuckets, sessions, minted, workouts,
                    workout_intervals, sync_metadata, clock, author, hauthor, issued,
                    revoked, devices >>

\* The timers of StoreTimers that leave both timestamps to the store.
UnstampedTimers == {w \in StoreTimers : w.created_at = ZeroTime /\ w.updated_at = ZeroTime}

NextStore ==
    \/ \E w \in UnstampedTimers, f \in StoreFaults : StoreUpsertWorkout(w, f)
    \/ \E u \in Profiles, id \in StoreIds : StoreDeleteWorkout(u, id)
    \/ \E c \in StoreHistory : StoreUpsertCompletion(c)
    \/ \E u \in Profiles, id \in CompletionIds : StoreDeleteCompletion(u, id)
    \/ Tick

SpecStore == Init /\ [][NextStore]_vars

\* SpecStoreTimers: the timer tables of the store alone.
NextStoreTimers ==
    \/ \E w \in StoreTimers, f \in StoreFaults : StoreUpsertWorkout(w, f)
    \/ \E u \in Profiles, id \in StoreIds : StoreDeleteWorkout(u, id)
    \/ Tick

SpecStoreTimers == Init /\ [][NextStoreTimers]_vars

\* SpecRate: the login-class endpoints of a server without password, called by one client
\* host over two connections, while seconds pass. The host keeps the log of its requests:
\* when each was sent and the status it was answered with.
ClientHosts == {"10.0.0.1"}

Ports == {"1", "2"}

\* r.RemoteAddr of a request: the address of the connection, host and port.
RemoteAddrOf(host, port) == host \o ":" \o port

CallerLog == [attempts |-> << >>]

\* The waits between two requests, in milliseconds.
WaitsMs == {1000, 1999, 2000}

InitRate == ServerInit({""}) /\ devices = [h \in ClientHosts |-> CallerLog]

\* The host's log after a request sent now and answered with status.
Logged(h, status) ==
    [devices EXCEPT ![h].attempts = Append(@, [at |-> clock, status |-> status])]

\* The host sends POST /api/auth/init over the connection with the port.
CallAuthInit(h, port, req) ==
    /\ Len(devices[h].attempts) < MaxAttempts
    /\ LET o == AuthInit(Server, "POST", RemoteAddrOf(h, port), req)
       IN  Install(o.S) /\ devices' = Logged(h, o.status)

\* The host sends POST /api/auth/test.
CallTestConnection(h, port, req) ==
    /\ Len(devices[h].attempts) < MaxAttempts
    /\ LET o == TestConnection(Server, "POST", RemoteAddrOf(h, port), req)
       IN  Install(o.S) /\ devices' = Logged(h, o.status)

\* The host sends POST /api/profiles.
CallGetProfiles(h, port, req) ==
    /\ Len(devices[h].attempts) < MaxAttempts
    /\ LET o == GetProfilesHandler(Server, "POST", RemoteAddrOf(h, port), req)
       IN  Install(o.S) /\ devices' = Logged(h, o.status)

\* ms milliseconds pass.
Elapse(ms) ==
    /\ clock + TimeOfUnixMilli(ms) <= TimeOfUnixMilli(MaxRunMs)
    /\ clock' = clock + TimeOfUnixMilli(ms)
    /\ UNCHANGED << syncPasswordHash, rlBuckets, sessions, minted, workouts,
                    workout_intervals, completions, sync_metadata, author, hauthor,
                    issued, revoked, devices >>

NextRate ==
    \/ \E h \in ClientHosts, port \in Ports, req \in OneProfileLogins :
           CallAuthInit(h, port, req)
    \/ \E h \in ClientHosts, port \in Ports :
           CallTestConnection(h, port, [valid |-> TRUE, password_hash |-> ""])
    \/ \E h \in ClientHosts, port \in Ports :
           CallGetProfiles(h, port, [valid |-> TRUE, password_hash |-> ""])
    \/ \E ms \in WaitsMs : Elapse(ms)
    \/ Tick

SpecRate == InitRate /\ [][NextRate]_vars

\* ------------------------------------------------------- token transport
\* Texts are sequences of atoms: a word without a space, or the space. The words a request
\* may carry: the two authentication schemes and the text of a session token.
Space == " "

Words == {"Bearer", "Basic", "1", "2"}

MaxTextLen == 3

Texts == UNION { [1..n -> Words \cup {Space}] : n \in 0..MaxTextLen }

\* strings.Split(s, sep) from atom i on, cur being the part read so far: the parts between
\* the separators, one more than there are separators.
RECURSIVE SplitFrom(_, _, _, _)
SplitFrom(s, sep, i, cur) ==
    IF i > Len(s) THEN << cur >>
    ELSE IF s[i] = sep THEN << cur >> \o SplitFrom(s, sep, i + 1, << >>)
    ELSE SplitFrom(s, sep, i + 1, Append(cur, s[i]))

Split(s, sep) == SplitFrom(s, sep, 1, << >>)

\* A request as extractToken reads it: the values of its Authorization header (none when
\* the header is absent) and the value of its token query parameter ("" when absent).
HttpRequests ==
    [header : { << >> } \cup { << t >> : t \in Texts },
     query : { << >>, << "1" >>, << "2" >> }]

\* http.Header.Get: the first value of the header, "" when there is none.
HeaderGet(values) == IF Len(values) = 0 THEN << >> ELSE values[1]

\* An extraction that tries the query parameter first.
extractTokenQueryFirst(r) ==
    LET auth == HeaderGet(r.header)
        parts == Split(auth, Space)
    IN  IF r.query # << >> THEN r.query
        ELSE IF Len(parts) = 2 /\ parts[1] = << "Bearer" >> THEN parts[2]
        ELSE << >>

\* extractToken
extractToken(r) ==
    LET auth == HeaderGet(r.header)
        parts == Split(auth, Space)
    IN  IF auth = << >> THEN r.query
        ELSE IF Len(parts) = 2 /\ parts[1] = << "Bearer" >> THEN parts[2]
        ELSE << >>

\* The session token a text is: "" is no token, the numerals are the tokens AuthInit hands
\* out, every other text is a token that was never handed out.
Unminted == MaxSessions + 1

SessionToken(text) ==
    IF text = << >> THEN NoToken
    ELSE IF text = << "1" >> THEN 1
    ELSE IF text = << "2" >> THEN 2
    ELSE Unminted

\* SpecTransport: a server whose callers send their token in the header or in the query of
\* requests to /api/auth/logout and /api/sync. The caller keeps its last request, the token
\* the handler extracted from it and the status of the response.
Callers == {"c1"}

NoRequest == [sent |-> FALSE]

InitTransport == ServerInit({""}) /\ devices = [c \in Callers |-> NoRequest]

Sent(c, r, status) ==
    [devices EXCEPT ![c] = [sent |-> TRUE, request |-> r, token |-> extractToken(r),
                            status |-> status]]

\* Caller c sends POST /api/sync with an empty upload.
RequestSync(c, r) ==
    \E o \in Sync(Server, "POST", SessionToken(extractToken(r)),
                  [valid |-> TRUE, last_synced_at |-> 0, workouts |-> << >>,
                   completions |-> << >>]) :
        Install(o.S) /\ devices' = Sent(c, r, o.status)

\* Caller c sends POST /api/auth/logout.
RequestLogout(c, r) ==
    LET o == Logout(Server, "POST", SessionToken(extractToken(r)))
    IN  Install(o.S) /\ devices' = Sent(c, r, o.status)

\* The requests the callers send: without a header, with a Bearer header, with a header of
\* another scheme and with a header of one word, each with and without the query parameter.
SentRequests ==
    [header : { << >>, << << "Bearer", Space, "1" >> >>, << << "Basic", Space, "1" >> >>,
                << << "Bearer" >> >> },
     query : { << >>, << "1" >>, << "2" >> }]

NextTransport ==
    \/ \E a \in RemoteAddrs, req \in OneProfileLogins : DoAuthInit("POST", a, req)
    \/ \E c \in Callers, r \in SentRequests : RequestSync(c, r)
    \/ \E c \in Callers, r \in SentRequests : RequestLogout(c, r)
    \/ Tick

SpecTransport == InitTransport /\ [][NextTransport]_vars

\* SpecMetadata: the table sync_metadata alone, called the way TestSyncMetadata calls it. The
\* caller keeps the log of its calls of UpdateLastSyncTime.
SyncTimes == 0..2

MetadataCaller == "test"

InitMetadata == ServerInit({""}) /\ devices = [c \in {MetadataCaller} |-> [calls |-> << >>]]

\* store.UpdateLastSyncTime(userID, syncTime) is called.
StoreUpdateLastSyncTime(userID, syncTime) ==
    /\ Len(devices[MetadataCaller].calls) < MaxAttempts
    /\ sync_metadata' = UpdateLastSyncTime(sync_metadata, userID, syncTime)
    /\ devices' = [devices EXCEPT ![MetadataCaller].calls =
                       Append(@, [userID |-> userID, syncTime |-> syncTime])]
    /\ UNCHANGED << syncPasswordHash, rlBuckets, sessions, minted, workouts,
                    workout_intervals, completions, clock, author, hauthor, issued,
                    revoked >>

NextMetadata == \E u \in Profiles, t \in SyncTimes : StoreUpdateLastSyncTime(u, t)

SpecMetadata == InitMetadata /\ [][NextMetadata]_vars

\* ------------------------------------------------------------ TursoStore
\* The remote managed store keeps its timestamps as TEXT in the format time.RFC3339, which
\* has whole seconds. A text is modelled as the number of its second; texts of one zone
\* compare as their seconds do. The zero time.Time formats as year 1, before every second a
\* clock shows.
TicksPerSecond == 1000 * TicksPerMs

ZeroTimeText == -1

\* t.Format(time.RFC3339); a nil *time.Time is stored as NULL.
FormatRFC3339(t) ==
    IF t = NullTime THEN NullTime
    ELSE IF t = ZeroTime THEN ZeroTimeText
    ELSE t \div TicksPerSecond

\* TursoStore.UpsertWorkout: the timestamps of the record are formatted as they are (there
\* is no default for a zero time), the statements are those of SQLiteStore.UpsertWorkout.
TursoUpsertWorkout(ws, ivs, workout) ==
    LET ws1 == Put(ws, workout.id,
                   UpsertWorkoutRow(ws, [workout EXCEPT
                                            !.deleted_at = FormatRFC3339(workout.deleted_at)],
                                    FormatRFC3339(workout.created_at),
                                    FormatRFC3339(workout.updated_at)))
        ins == InsertIntervals(DeleteIntervals(ivs, workout.id), workout.id,
                               workout.intervals, 1)
    IN  IF ins.err THEN Rollback(ws, ivs, ws1, ins.tbl)
        ELSE [err |-> FALSE, workouts |-> ws1, workout_intervals |-> ins.tbl]

\* The rows TursoStore.GetWorkoutsModifiedSince selects: WHERE user_id = ? AND
\* updated_at > ?, with sinceTime := time.UnixMilli(since).Format(time.RFC3339).
TursoWorkoutsModifiedSinceIds(ws, userID, since) ==
    LET sinceTime == FormatRFC3339(TimeOfUnixMilli(since))
    IN  {id \in DOMAIN ws : ws[id].user_id = userID /\ ws[id].updated_at > sinceTime}

\* TursoStore.DeleteWorkout: now := time.Now().Format(time.RFC3339)
TursoDeleteWorkoutRow(ws, userID, workoutID, now) ==
    DeleteWorkoutRow(ws, userID, workoutID, FormatRFC3339(now))

\* SpecBackends: the two implementations of Store side by side, given the same calls at the
\* same times. The tables of the SQLiteStore are workouts and workout_intervals; the tables
\* of the TursoStore are kept under the name of the backend.
Turso == "turso"

InitBackends ==
    /\ ServerInit({""})
    /\ devices = [b \in {Turso} |-> [workouts |-> Empty, workout_intervals |-> Empty]]

\* The timers of the calls: without intervals or with one, with an updated-at of the caller
\* (1.5 seconds after the epoch of the model) or without.
BackendTimers ==
    { Workout("t1", u, c, ZeroTime, ua, NullTime) :
        u \in Profiles,
        c \in { [name |-> "T", rounds |-> 1, intervals |-> << >>],
                [name |-> "U", rounds |-> 2,
                 intervals |-> << Interval("i1", "Work", 30, 0) >>] },
        ua \in {ZeroTime, TimeOfUnixMilli(1500)} }

\* UpsertWorkout(workout) is called on both stores.
BackendsUpsertWorkout(workout) ==
    LET up == UpsertWorkout(workouts, workout_intervals, workout, clock)
        tup == TursoUpsertWorkout(devices[Turso].workouts, devices[Turso].workout_intervals,
                                  workout)
    IN  /\ workouts' = up.workouts
        /\ workout_intervals' = up.workout_intervals
        /\ author' = IF up.err THEN author ELSE Put(author, workout.id, workout.user_id)
        /\ devices' = [devices EXCEPT ![Turso] =
                          [workouts |-> tup.workouts,
                           workout_intervals |-> tup.workout_intervals]]
        /\ UNCHANGED << syncPasswordHash, rlBuckets, sessions, minted, completions,
                        sync_metadata, clock, hauthor, issued, revoked >>

\* DeleteWorkout(userID, workoutID) is called on both stores.
BackendsDeleteWorkout(userID, workoutID) ==
    /\ workouts' = DeleteWorkoutRow(workouts, userID, workoutID, clock)
    /\ devices' = [devices EXCEPT ![Turso].workouts =
                      TursoDeleteWorkoutRow(@, userID, workoutID, clock)]
    /\ UNCHANGED << syncPasswordHash, rlBuckets, sessions, minted, workout_intervals,
                    completions, sync_metadata, clock, author, hauthor, issued, revoked >>

NextBackends ==
    \/ \E w \in BackendTimers : BackendsUpsertWorkout(w)
    \/ \E u \in Profiles, id \in WorkoutIds : BackendsDeleteWorkout(u, id)
    \/ \E ms \in WaitsMs : Elapse(ms)
    \/ Tick

SpecBackends == InitBackends /\ [][NextBackends]_vars

\* ---------------------------------------------------- concurrent upserts
\* SpecConcurrent: two requests whose handlers call UpsertWorkout at the same time, statement
\* by statement. database/sql gives a transaction one connection of the pool from tx.Begin to
\* tx.Commit or tx.Rollback, and Begin waits while the pool has none left; the pool of the
\* SQLiteStore has MaxOpenConns connections.
MaxOpenConns == 1

RequestIds == {"r1", "r2"}

\* The position of a call of UpsertWorkout: not called, waiting in tx.Begin, before the
\* upsert of the row, before the DELETE, before the INSERT of interval i, before tx.Commit,
\* returned. begun holds the tables as they were at tx.Begin, for the rollback. History:
\* overlapped tells that the call was made while a transaction of another call was open.
NotCalled == [pc |-> "idle"]

InTransaction(rq) == rq.pc \in {"row", "delete", "insert", "commit"}

\* A pool whose connections never run out.
ConnectionsInUseNone(rqs) == 0

\* The connections of the pool that are in use: one for each open transaction.
ConnectionsInUse(rqs) == Cardinality({r \in DOMAIN rqs : InTransaction(rqs[r])})

\* The timers the concurrent calls carry: one id, different names and interval lists.
ConcurrentTimers ==
    { Workout("t1", "alice", c, ZeroTime, ZeroTime, NullTime) : c \in StoreContents }

InitConcurrent == ServerInit({""}) /\ devices = [r \in RequestIds |-> NotCalled]

\* The handler of request r calls store.UpsertWorkout(workout).
CallUpsertWorkout(r, workout) ==
    /\ devices[r].pc = "idle"
    /\ devices' = [devices EXCEPT ![r] =
           [pc |-> "begin", workout |-> workout, i |-> 1, err |-> FALSE,
            begun |-> [workouts |-> workouts, workout_intervals |-> workout_intervals],
            overlapped |-> \E q \in RequestIds \ {r} : InTransaction(devices[q])]]
    /\ UNCHANGED serverVars

\* tx.Begin of request r returns: a connection of the pool was free.
Begin(r) ==
    /\ devices[r].pc = "begin"
    /\ ConnectionsInUse(devices) < MaxOpenConns
    /\ devices' = [devices EXCEPT ![r].pc = "row",
                                  ![r].begun = [workouts |-> workouts,
                                                workout_intervals |-> workout_intervals]]
    /\ UNCHANGED serverVars

\* The INSERT ... ON CONFLICT(id) DO UPDATE of the row, with now := time.Now().
ExecUpsertRow(r) ==
    LET workout == devices[r].workout
    IN  /\ devices[r].pc = "row"
        /\ workouts' = Put(workouts, workout.id,
                           UpsertWorkoutRow(workouts, workout, clock, clock))
        /\ devices' = [devices EXCEPT ![r].pc = "delete"]
        /\ UNCHANGED << syncPasswordHash, rlBuckets, sessions, minted, workout_intervals,
                        completions, sync_metadata, clock, author, hauthor, issued,
                        revoked >>

\* The DELETE of the interval rows of the timer.
ExecDeleteIntervals(r) ==
    /\ devices[r].pc = "delete"
    /\ workout_intervals' = DeleteIntervals(workout_intervals, devices[r].workout.id)
    /\ devices' = [devices EXCEPT ![r].pc = IF Len(devices[r].workout.intervals) = 0
                                               THEN "commit" ELSE "insert"]
    /\ UNCHANGED << syncPasswordHash, rlBuckets, sessions, minted, workouts, completions,
                    sync_metadata, clock, author, hauthor, issued, revoked >>

\* One pass of the loop: the INSERT of interval i. An error returns from UpsertWorkout, and
\* the deferred tx.Rollback puts the tables back to what they were at tx.Begin.
ExecInsertInterval(r) ==
    LET rq == devices[r]
        ins == InsertIntervals(workout_intervals, rq.workout.id,
                               SubSeq(rq.workout.intervals, 1, rq.i), rq.i)
        back == Rollback(rq.begun.workouts, rq.begun.workout_intervals, workouts, ins.tbl)
    IN  /\ rq.pc = "insert"
        /\ IF ins.err
              THEN /\ workouts' = back.workouts
                   /\ workout_intervals' = back.workout_intervals
                   /\ devices' = [devices EXCEPT ![r].pc = "done", ![r].err = TRUE]
              ELSE /\ workouts' = workouts
                   /\ workout_intervals' = ins.tbl
                   /\ devices' = [devices EXCEPT
                          ![r].i = rq.i + 1,
                          ![r].pc = IF rq.i = Len(rq.workout.intervals)
                                       THEN "commit" ELSE "insert"]
        /\ UNCHANGED << syncPasswordHash, rlBuckets, sessions, minted, completions,
                        sync_metadata, clock, author, hauthor, issued, revoked >>

\* tx.Commit: UpsertWorkout returns nil and the connection goes back to the pool.
Commit(r) ==
    /\ devices[r].pc = "commit"
    /\ devices' = [devices EXCEPT ![r].pc = "done"]
    /\ author' = Put(author, devices[r].workout.id, devices[r].workout.user_id)
    /\ UNCHANGED << syncPasswordHash, rlBuckets, sessions, minted, workouts,
                    workout_intervals, completions, sync_metadata, clock, hauthor, issued,
                    revoked >>

NextConcurrent ==
    \/ \E r \in RequestIds, w \in ConcurrentTimers : CallUpsertWorkout(r, w)
    \/ \E r \in RequestIds : Begin(r)
    \/ \E r \in RequestIds : ExecUpsertRow(r)
    \/ \E r \in RequestIds : ExecDeleteIntervals(r)
    \/ \E r \in RequestIds : ExecInsertInterval(r)
    \/ \E r \in RequestIds : Commit(r)
    \/ Tick

SpecConcurrent == InitConcurrent /\ [][NextConcurrent]_vars

\* ------------------------------------------------------ overlapping syncs
\* SpecOverlap: two requests to /api/sync of sessions of one profile whose handlers run at
\* the same time. Handler.Sync is a sequence of calls of the store, each of which takes the
\* one connection for itself; between two calls the handler of the other request may run
\* and time may pass. A request in flight keeps what its handler has read so far. History:
\* wrote is the set of the timer ids its upserts have written, and missedBy the requests
\* whose handler had already run its query for timers when these upserts ran.
InitOverlap == ServerInit({""}) /\ devices = [r \in RequestIds |-> NotCalled]

\* The handler of request r starts: method, token and body are checked.
SyncArrives(r, token, payload) ==
    /\ devices[r].pc = "idle"
    /\ devices' = [devices EXCEPT ![r] =
           IF token = NoToken \/ VerifySession(sessions, token).err
              THEN [pc |-> "done", status |-> StatusUnauthorized]
              ELSE [pc |-> "upsert", status |-> StatusOK,
                    UserID |-> VerifySession(sessions, token).UserID,
                    payload |-> payload, workouts |-> {}, last_synced_at |-> 0,
                    wrote |-> {}, missedBy |-> {}]]
    /\ UNCHANGED serverVars

\* The two loops of Handler.Sync: every record of the upload is upserted.
SyncUpserts(r) ==
    LET rq == devices[r]
        ups == UpsertWorkouts(workouts, workout_intervals, author, rq.payload.workouts, 1,
                              rq.UserID, clock)
        upc == UpsertCompletions(completions, hauthor, rq.payload.completions, 1,
                                 rq.UserID, clock)
        ids == {rq.payload.workouts[k].id : k \in 1..Len(rq.payload.workouts)}
    IN  /\ rq.pc = "upsert"
        /\ workouts' = ups.workouts
        /\ workout_intervals' = ups.workout_intervals
        /\ author' = ups.author
        /\ completions' = IF ups.err THEN completions ELSE upc.completions
        /\ hauthor' = IF ups.err THEN hauthor ELSE upc.hauthor
        /\ devices' = [devices EXCEPT ![r] =
               IF ups.err
                  THEN [rq EXCEPT !.pc = "done", !.status = StatusInternalServerError]
                  ELSE [rq EXCEPT !.pc = "timers", !.wrote = ids,
                                  !.missedBy = {q \in RequestIds \ {r} :
                                                   devices[q].pc \in {"history",
                                                                      "watermark"}}]]
        /\ UNCHANGED << syncPasswordHash, rlBuckets, sessions, minted, sync_metadata,
                        clock, issued, revoked >>

\* h.store.GetWorkoutsModifiedSince(session.UserID, payload.LastSyncedAt)
SyncReadsWorkouts(r) ==
    LET rq == devices[r]
    IN  /\ rq.pc = "timers"
        /\ \E timers \in GetWorkoutsModifiedSince(workouts, workout_intervals, rq.UserID,
                                                  rq.payload.last_synced_at) :
               devices' = [devices EXCEPT ![r].pc = "history", ![r].workouts = timers]
        /\ UNCHANGED serverVars

\* h.store.GetCompletionsModifiedSince(session.UserID, payload.LastSyncedAt)
SyncReadsCompletions(r) ==
    /\ devices[r].pc = "history"
    /\ devices' = [devices EXCEPT ![r].pc = "watermark"]
    /\ UNCHANGED serverVars

\* now := time.Now().UnixMilli(), UpdateLastSyncTime and the response.
SyncResponds(r) ==
    LET rq == devices[r]
        now == UnixMilli(clock)
    IN  /\ rq.pc = "watermark"
        /\ sync_metadata' = UpdateLastSyncTime(sync_metadata, rq.UserID, now)
        /\ devices' = [devices EXCEPT ![r].pc = "done", ![r].last_synced_at = now]
        /\ UNCHANGED << syncPasswordHash, rlBuckets, sessions, minted, workouts,
                        workout_intervals, completions, clock, author, hauthor, issued,
                        revoked >>

\* A millisecond passes, once the ticks within the first are over.
MillisecondPasses ==
    /\ clock <= MaxClock
    /\ clock' = clock + TicksPerMs
    /\ UNCHANGED << syncPasswordHash, rlBuckets, sessions, minted, workouts,
                    workout_intervals, completions, sync_metadata, author, hauthor,
                    issued, revoked, devices >>

\* The uploads of the requests: nothing, or one timer as a new client sends it.
OverlapPayloads ==
    SyncPayloads({0}, { << >>, << Workout("t1", "", [name |-> "T", rounds |-> 1,
                                                     intervals |-> << >>],
                                          ZeroTime, ZeroTime, NullTime) >> }, { << >> })

NextOverlap ==
    \/ \E a \in RemoteAddrs, req \in OneProfileLogins : DoAuthInit("POST", a, req)
    \/ \E r \in RequestIds, t \in Tokens, p \in OverlapPayloads : SyncArrives(r, t, p)
    \/ \E r \in RequestIds : SyncUpserts(r)
    \/ \E r \in RequestIds : SyncReadsWorkouts(r)
    \/ \E r \in RequestIds : SyncReadsCompletions(r)
    \/ \E r \in RequestIds : SyncResponds(r)
    \/ MillisecondPasses
    \/ Tick

SpecOverlap == InitOverlap /\ [][NextOverlap]_vars

\* SpecReauth: one device whose user creates timers, signs in, logs out and reloads the page,
\* while sessions are logged out on the server. logoutCall is the fetch of SyncService.logout
\* in flight.
ReauthDevice == NewDevice @@ [logoutCall |-> NoCall]

\* What logout and logoutSync leave of the session: the token, the profile and the stored
\* items are removed and syncStatus is reset; this.lastSyncTime is not assigned.
LogoutClears(dv) ==
    [dv EXCEPT !.token = NoToken, !.userId = "",
               !.storage = [syncToken |-> NoItem, syncLastSyncTime |-> NoItem],
               !.authenticated = FALSE]

\* The user logs device d out: logoutSync and SyncService.logout up to the fetch. The timer of
\* scheduleSyncDebounced is cleared; without a backend URL or a token the session is cleared
\* at once, otherwise the server handles POST /api/auth/logout at once and its response is
\* awaited.
LogoutSync(d) ==
    LET dv == [devices[d] EXCEPT !.syncTimeout = NoCall]
    IN  /\ ~dv.logoutCall.pending
        /\ IF ~dv.backendURL \/ dv.token = NoToken
              THEN /\ devices' = [devices EXCEPT ![d] = LogoutClears(dv)]
                   /\ UNCHANGED serverVars
              ELSE /\ devices' = [devices EXCEPT ![d] =
                          [dv EXCEPT !.logoutCall = [pending |-> TRUE]]]
                   /\ Install(Logout(Server, "POST", dv.token).S)

\* The fetch of SyncService.logout of device d ends: the finally block, then logoutSync.
LogoutReturns(d) ==
    LET dv == devices[d]
    IN  /\ dv.logoutCall.pending
        /\ devices' = [devices EXCEPT ![d] =
               [LogoutClears(dv) EXCEPT !.backendURL = FALSE, !.logoutCall = NoCall]]
        /\ UNCHANGED serverVars

\* The page of device d is loaded again: a new SyncService, the saved array, loadSession and
\* the auto-sync effect. Timers and fetches of the old page are gone. syncBackendURL is stored
\* with the token by initialize, so the URL in memory is the one loadSession finds whenever a
\* token is stored; the profile is stored and removed together with the token.
Reload(d) ==
    LET dv == devices[d]
        stored == dv.storage.syncToken # NoItem
        loaded == [dv EXCEPT !.token = IF stored THEN dv.storage.syncToken ELSE NoToken,
                             !.userId = IF stored THEN dv.userId ELSE "",
                             !.lastSyncTime = IF dv.storage.syncLastSyncTime = NoItem
                                                 THEN 0 ELSE dv.storage.syncLastSyncTime,
                             !.syncing = FALSE, !.syncScheduled = FALSE,
                             !.syncTimeout = NoCall, !.authCall = NoCall,
                             !.syncCall = NoCall, !.logoutCall = NoCall,
                             !.flights = 0, !.collision = NoCall, !.switched = FALSE]
    IN  /\ devices' = [devices EXCEPT ![d] =
               SetWorkouts([loaded EXCEPT !.authenticated = IsAuthenticated(loaded)],
                           dv.workouts)]
        /\ UNCHANGED serverVars

InitReauth == ServerInit({""}) /\ devices = [d \in {"d1"} |-> ReauthDevice]

NextReauth ==
    \/ \E d \in DOMAIN devices, id \in WorkoutIds : CreateWorkout(d, id)
    \/ \E d \in DOMAIN devices, p \in Profiles : InitializeSync(d, p)
    \/ \E d \in DOMAIN devices : AuthReturns(d)
    \/ \E d \in DOMAIN devices : DebounceFires(d)
    \/ \E d \in DOMAIN devices : SyncTimeoutFires(d)
    \/ \E d \in DOMAIN devices : SyncReturns(d)
    \/ \E d \in DOMAIN devices : LogoutSync(d)
    \/ \E d \in DOMAIN devices : LogoutReturns(d)
    \/ \E d \in DOMAIN devices : Reload(d)
    \/ \E t \in Tokens : DoLogout("POST", t)
    \/ Tick

SpecReauth == InitReauth /\ [][NextReauth]_vars

\* ------------------------------------------------------------ properties
\* The sessions a caller can hold, and the profile a session authenticates.
ValidTokens == DOMAIN sessions

ProfileOf(t) == sessions[t].user_id

\* The interval rows of a timer.
IntervalRows(ivs, id) == {i \in DOMAIN ivs : ivs[i].workout_id = id}

\* Every request to /api/sync that uploads timers.
TimerUploads == SyncPayloads(Watermarks, TimerBatches, { << >> })

\* C1 (cross-profile read isolation): a timer or history entry whose row was last written
\* by an upload authenticated as profile A is in no result of the changed-since queries for
\* another profile B, whatever the watermark.
C1_ReadIsolation ==
    \A B \in Profiles, w \in Watermarks :
        /\ \A res \in GetWorkoutsModifiedSince(workouts, workout_intervals, B, w) :
               \A r \in res : author[r.id] = B
        /\ \A r \in GetCompletionsModifiedSince(completions, B, w) : hauthor[r.id] = B

\* C2 (cross-profile write protection): a timer stored under profile A comes out of every
\* upload and every softDelete authenticated as another profile B unchanged, row and
\* interval rows alike.
C2_WriteProtection ==
    \A t \in ValidTokens, id \in DOMAIN workouts :
        ProfileOf(t) # workouts[id].user_id =>
            /\ \A p \in TimerUploads : \A o \in Sync(Server, "POST", t, p) :
                   /\ id \in DOMAIN o.S.workouts
                   /\ o.S.workouts[id] = workouts[id]
                   /\ IntervalRows(o.S.workout_intervals, id)
                          = IntervalRows(workout_intervals, id)
                   /\ \A i \in IntervalRows(workout_intervals, id) :
                          o.S.workout_intervals[i] = workout_intervals[i]
            /\ DeleteWorkout(Server, "DELETE", t, id).S.workouts[id] = workouts[id]

\* C3 (soft delete visibility): softDelete of a timer by its profile succeeds; after it the
\* retrieval by id reports not found, and the changed-since query with any watermark older
\* than the deletion returns the timer with its deletion marker set. The same holds for the
\* changed-since query of a history entry after its softDelete.
C3_SoftDeleteVisibility ==
    /\ \A t \in ValidTokens, id \in DOMAIN workouts :
           ProfileOf(t) = workouts[id].user_id =>
               LET o == DeleteWorkout(Server, "DELETE", t, id)
               IN  /\ o.status = StatusOK
                   /\ \A g \in GetWorkout(o.S, "GET", t, id) : g.status = StatusNotFound
                   /\ \A w \in Watermarks : TimeOfUnixMilli(w) < clock =>
                          \A res \in GetWorkoutsModifiedSince(
                                         o.S.workouts, o.S.workout_intervals, ProfileOf(t), w) :
                              \E r \in res : r.id = id /\ r.deleted_at # NullTime
    /\ \A t \in ValidTokens, id \in DOMAIN completions :
           ProfileOf(t) = completions[id].user_id =>
               LET o == DeleteCompletion(Server, "DELETE", t, id)
               IN  /\ o.status = StatusOK
                   /\ \A w \in Watermarks : TimeOfUnixMilli(w) < clock =>
                          \E r \in GetCompletionsModifiedSince(
                                        o.S.completions, ProfileOf(t), w) :
                              r.id = id /\ r.deleted_at # NullTime

\* A timer and a history entry of one profile, both stored before the current millisecond
\* and not deleted, and a session of that profile: softDelete acts on both, and a watermark
\* between their last change and the deletion exists.
C3_Witness ==
    \E t \in ValidTokens, id \in DOMAIN workouts, c \in DOMAIN completions :
        /\ ProfileOf(t) = workouts[id].user_id
        /\ ProfileOf(t) = completions[c].user_id
        /\ workouts[id].deleted_at = NullTime
        /\ completions[c].deleted_at = NullTime
        /\ \E w \in Watermarks :
               /\ workouts[id].updated_at <= TimeOfUnixMilli(w)
               /\ completions[c].updated_at <= TimeOfUnixMilli(w)
               /\ TimeOfUnixMilli(w) < clock
        /\ DeleteWorkout(Server, "DELETE", t, id).S.workouts[id].deleted_at = clock
        /\ DeleteCompletion(Server, "DELETE", t, c).S.completions[c].deleted_at = clock


\* A request to /api/sync that uploads nothing and asks for the changes since w.
Pull(w) == [valid |-> TRUE, last_synced_at |-> w, workouts |-> << >>, completions |-> << >>]

\* The timers a new client uploads: no timestamps of their own, not deleted.
FreshTimers == {r \in TimerInputs : r.updated_at = ZeroTime /\ r.deleted_at = NullTime}

\* The server one tick after S.
Later(S) == [S EXCEPT !.clock = S.clock + 1]

\* C4 (watermark completeness): device D pulls everything and gets watermark W; time passes and
\* another session of the profile uploads a timer; D's next reconcile, sending W, returns that
\* timer: no record of the profile that D has not been given has updated-at <= W.
C4_WatermarkCompleteness ==
    \A t \in ValidTokens : \A o1 \in Sync(Server, "POST", t, Pull(0)) :
        (o1.status = StatusOK /\ o1.S.clock < MaxClock) =>
            \A t2 \in ValidTokens, r \in TimerInputs :
                ProfileOf(t2) = ProfileOf(t) =>
                    \A o2 \in Sync(Later(o1.S), "POST", t2,
                                   [valid |-> TRUE, last_synced_at |-> 0,
                                    workouts |-> << r >>, completions |-> << >>]) :
                        o2.status = StatusOK =>
                            \A o3 \in Sync(o2.S, "POST", t, Pull(o1.last_synced_at)) :
                                /\ o3.status = StatusOK
                                /\ \E x \in o3.workouts : x.id = r.id

\* C5 (watermark monotonicity): a reconcile returns watermark w2 and a delta; the following
\* reconcile of the profile, sending w2 with nothing uploaded and nothing modified in
\* between, returns no record of that delta.
C5_WatermarkMonotonicity ==
    \A t \in ValidTokens, p \in TimerUploads : \A o1 \in Sync(Server, "POST", t, p) :
        o1.status = StatusOK =>
            \A o2 \in Sync(o1.S, "POST", t, Pull(o1.last_synced_at)) :
                o2.status = StatusOK =>
                    \A x \in o2.workouts : ~ \E y \in o1.workouts : y.id = x.id

\* UpsertWorkout of the same record n more times, each with updated-at u.
RECURSIVE UpsertTimes(_, _, _, _, _)
UpsertTimes(ws, ivs, workout, now, n) ==
    IF n = 0
       THEN [err |-> FALSE, workouts |-> ws, workout_intervals |-> ivs]
       ELSE LET up == UpsertWorkout(ws, ivs, workout, now)
            IN  IF up.err THEN up
                ELSE UpsertTimes(up.workouts, up.workout_intervals, workout, now, n - 1)

\* An interval without its position.
IntervalContent(i) == [id |-> i.id, name |-> i.name, duration |-> i.duration, color |-> i.color]

\* The interval rows of a timer as contents.
StoredIntervals(ivs, id) ==
    { [id |-> i, name |-> ivs[i].name, duration |-> ivs[i].duration, color |-> ivs[i].color] :
        i \in IntervalRows(ivs, id) }

\* C7 (idempotent upload): when the upsert of a timer record succeeds, upserting the same
\* record again, any number of times, identical or with only updated-at advanced, succeeds
\* too and leaves as interval rows of the timer exactly the uploaded intervals, as many as
\* after the first upload.
C7_IdempotentUpload ==
    \A uid \in Profiles, r \in TimerInputs, n \in 1..MaxUploads, u \in {ZeroTime, clock} :
        LET w == [r EXCEPT !.user_id = uid]
            one == UpsertWorkout(workouts, workout_intervals, w, clock)
            again == UpsertTimes(one.workouts, one.workout_intervals,
                                 [w EXCEPT !.updated_at = IF u = ZeroTime THEN r.updated_at
                                                          ELSE u],
                                 clock, n - 1)
        IN  ~one.err =>
                /\ ~again.err
                /\ StoredIntervals(again.workout_intervals, r.id)
                      = {IntervalContent(r.intervals[k]) : k \in 1..Len(r.intervals)}
                /\ Cardinality(IntervalRows(again.workout_intervals, r.id)) = Len(r.intervals)
                /\ Cardinality(IntervalRows(again.workout_intervals, r.id))
                      = Cardinality(IntervalRows(one.workout_intervals, r.id))

\* A timer is stored with the intervals of an upload, and uploading it twice more, and
\* uploading the other interval list over it, go through.
C7_Witness ==
    \E r \in TimerInputs, q \in TimerInputs :
        /\ r.id \in DOMAIN workouts
        /\ StoredIntervals(workout_intervals, r.id)
              = {IntervalContent(r.intervals[k]) : k \in 1..Len(r.intervals)}
        /\ ~UpsertTimes(workouts, workout_intervals, r, clock, 2).err
        /\ q.id = r.id /\ q.intervals # r.intervals
        /\ ~UpsertTimes(workouts, workout_intervals, q, clock, 2).err

SameTimer(r, T) ==
    /\ r.id = T.id
    /\ r.rounds = T.rounds
    /\ Len(r.intervals) = Len(T.intervals)
    /\ \A k \in 1..Len(T.intervals) :
          IntervalContent(r.intervals[k]) = IntervalContent(T.intervals[k])

\* C9 (round trip between devices): a client with watermark 0 syncs a local timer T with
\* success: the response contains T under its id and a watermark > 0, and a later sync of
\* another client of the profile, watermark 0 and empty arrays, returns T.
C9_RoundTrip ==
    \A t \in ValidTokens, T \in FreshTimers :
        \A o1 \in Sync(Server, "POST", t,
                       [valid |-> TRUE, last_synced_at |-> 0, workouts |-> << T >>,
                        completions |-> << >>]) :
            o1.status = StatusOK =>
                /\ \E r \in o1.workouts : SameTimer(r, T)
                /\ o1.last_synced_at > 0
                /\ \A t2 \in ValidTokens : ProfileOf(t2) = ProfileOf(t) =>
                       \A o2 \in Sync(o1.S, "POST", t2, Pull(0)) :
                           /\ o2.status = StatusOK
                           /\ \E r \in o2.workouts : SameTimer(r, T)


\* A timer of a local replica that carries no deletion marker.
Live(w) == w.deleted_at = NullTime /\ w.deletedAt = NullTime

\* C6 (deletion convergence): once a device has deleted a timer and then synced with
\* success, every other device of the profile that thereafter sends a sync and sees it
\* succeed holds the timer as deleted: it has no copy of it without a deletion marker.
C6_DeletionConvergence ==
    \A d \in DOMAIN devices : \A id \in devices[d].pulledAfter :
        \A k \in 1..Len(devices[d].workouts) :
            devices[d].workouts[k].id = id => ~Live(devices[d].workouts[k])

\* C10 (profile switch isolation): after switchProfile has finished on a device, every timer
\* of its local replica belongs to the profile switched to, as a record received from that
\* profile's server data or created on the device since; so the replica holds no record of
\* the profile left, and nothing when the new profile has no records on the server.
C10_ProfileSwitchIsolation ==
    \A d \in DOMAIN devices :
        (devices[d].switched /\ devices[d].userId # "") =>
            \A k \in 1..Len(devices[d].workouts) :
                devices[d].workouts[k].owner = devices[d].userId

\* C13 Token validity: in every state VerifySession answers profile P for a token exactly
\* when a login for P was answered with that token and no logout has deleted it since;
\* every other token (none, unknown, revoked) is an error, and a logout with a token that
\* was already revoked is answered 200 and leaves the sessions as they are.
C13_TokenValidity ==
    /\ \A t \in Tokens :
           LET v == VerifySession(sessions, t)
               live == t \in DOMAIN issued /\ t \notin revoked
           IN  /\ v.err <=> ~live
               /\ ~v.err => v.UserID = issued[t]
    /\ \A t \in revoked :
           LET o == Logout(Server, "POST", t)
           IN  /\ o.status = StatusOK
               /\ o.S.sessions = sessions
               /\ VerifySession(o.S.sessions, t).err

\* A token has been revoked while another one is live.
C13_Witness ==
    /\ revoked # {}
    /\ \E t \in DOMAIN sessions : issued[t] \in Profiles

\* The tokens that are no session: none, never issued, or revoked.
NoSession == {t \in Tokens : t = NoToken \/ t \notin DOMAIN issued \/ t \in revoked}

\* C12 Unauthorized reconcile persists nothing: in every state a sync request with no
\* token, an unknown token or a revoked one, whatever its body, is answered 401 and leaves
\* the server (timers, intervals, history entries, watermarks) as it was.
C12_UnauthorizedPersistsNothing ==
    \A t \in NoSession :
        \A p \in SyncPayloads(Watermarks, FreshTimerBatches, FreshHistoryBatches)
                   \cup {Malformed} :
            Sync(Server, "POST", t, p) = { [S |-> Server, status |-> StatusUnauthorized] }

\* A session has been revoked while timers, history entries and a watermark are stored.
C12_Witness ==
    /\ revoked # {}
    /\ workouts # Empty
    /\ completions # Empty
    /\ sync_metadata # Empty

\* C20 Echo of own upload: in every state, a reconcile request of a session that is answered
\* 200 carries in its response every timer of its upload, whatever watermark it sent.
C20_EchoOfOwnUpload ==
    \A t \in ValidTokens, p \in TimerUploads : \A o \in Sync(Server, "POST", t, p) :
        o.status = StatusOK =>
            \A k \in 1..Len(p.workouts) : \E x \in o.workouts : x.id = p.workouts[k].id

\* C14 Single flight: in every state of a device that signs in, switches profile, is edited
\* and syncs in any interleaving, at most one sync request is sent and not yet answered,
\* and it is the one whose response the device waits for.
C14_SingleFlight ==
    \A d \in DOMAIN devices :
        /\ devices[d].flights <= 1
        /\ devices[d].flights = 1 <=> devices[d].syncCall.pending

\* A sync is in flight and another call of sync has found it so.
C14_Witness ==
    \E d \in DOMAIN devices :
        /\ devices[d].flights = 1
        /\ devices[d].syncScheduled
        /\ devices[d].collision.pending

\* C16 Debounce coalescing: in every state at most one timer of the auto-sync effect is
\* pending on a device, and after a burst of changes the user made while the device was
\* authenticated, none of whose timers has fired, exactly one is pending: it has the delay
\* of 5000 ms, set at the last change, and will call sync with the array after that change.
C16_DebounceCoalescing ==
    \A d \in DOMAIN devices :
        /\ Cardinality(devices[d].debounce) <= 1
        /\ devices[d].burst > 0 =>
               devices[d].debounce = { [workouts |-> devices[d].workouts, delayMs |-> 5000] }

\* Two changes of the user have been coalesced into one pending timer.
C16_Witness ==
    \E d \in DOMAIN devices :
        /\ devices[d].burst = 2
        /\ Cardinality(devices[d].debounce) = 1

\* Nothing of the device is in flight or scheduled: no request, no timer.
Quiet(dv) == AtRest(dv) /\ dv.debounce = {} /\ ~dv.syncTimeout.pending

\* The server holds the local timer w: a row of its id with its name, rounds and intervals.
StoredAs(w) ==
    /\ w.id \in DOMAIN workouts
    /\ workouts[w.id].name = w.name
    /\ workouts[w.id].rounds = w.rounds
    /\ StoredIntervals(workout_intervals, w.id)
           = {IntervalContent(w.intervals[k]) : k \in 1..Len(w.intervals)}

\* C15 Owed sync: when a call of sync has found another sync in flight, no sync has failed
\* since, and the device has come to rest (no request in flight, no timer pending) signed in
\* and with the array that call was to upload, then every timer of that array is on the
\* server as the device holds it: the change behind the colliding call has been uploaded.
C15_OwedSync ==
    \A d \in DOMAIN devices :
        LET dv == devices[d]
        IN  (/\ Quiet(dv)
             /\ IsAuthenticated(dv)
             /\ dv.collision.pending
             /\ ~dv.collision.failed
             /\ dv.workouts = dv.collision.workouts)
            => \A k \in 1..Len(dv.workouts) : StoredAs(dv.workouts[k])

\* The response in flight is a failure that is not 401: no response at all, or an error
\* status.
TransientFailure(dv) ==
    dv.syncCall.pending /\ dv.syncCall.out.status \notin {StatusOK, StatusUnauthorized}

\* C19 Client handling of transient failure: whenever the sync in flight of a device has
\* failed with a network error or an error status other than 401, then once the response has
\* been handled the device is still authenticated with the same token, its watermark and
\* its timers are what they were, sync has returned the error to its caller, and no sync is
\* in flight, so that the next trigger can send one.
C19_TransientFailure ==
    \A d \in DOMAIN devices :
        LET dv == devices[d]
        IN  TransientFailure(dv) =>
                \A ws \in PendingOrders(dv) :
                    LET after == SyncEnds(dv, ws)
                        result == SyncResult(dv, ws)
                    IN  /\ IsAuthenticated(after)
                        /\ after.token = dv.token
                        /\ after.lastSyncTime = dv.lastSyncTime
                        /\ after.storage = dv.storage
                        /\ after.workouts = dv.workouts
                        /\ ~result.success /\ result.error # "" /\ ~result.authExpired
                        /\ ~after.syncing

\* C18 Client handling of Unauthorized: whenever the response in flight of a device is 401,
\* then once it has been handled the device is unauthenticated, its token and its watermark
\* are cleared in memory and in localStorage, sync has returned authExpired and the
\* onAuthExpired callback has set syncStatus.authenticated to false, and a call of sync
\* sends no request.
C18_UnauthorizedHandling ==
    \A d \in DOMAIN devices :
        LET dv == devices[d]
        IN  (dv.syncCall.pending /\ dv.syncCall.out.status = StatusUnauthorized) =>
                \A ws \in PendingOrders(dv) :
                    LET after == SyncEnds(dv, ws)
                        result == SyncResult(dv, ws)
                    IN  /\ ~IsAuthenticated(after)
                        /\ after.token = NoToken
                        /\ after.storage.syncToken = NoItem
                        /\ after.lastSyncTime = 0
                        /\ after.storage.syncLastSyncTime = NoItem
                        /\ ~result.success /\ result.authExpired
                        /\ ~after.authenticated
                        /\ \A r \in SyncServiceSync(after, Server, "auto", after.workouts,
                                                     after.workouts, {}) :
                               ~r.dv.syncCall.pending /\ r.S = Server

\* C11 Profile switch excludes tombstones: whenever the sync of a switchProfile has been
\* answered 200, then once the response has been handled the local array is exactly the
\* records of the response that are not soft-deleted on the server (deleted_at is null).
C11_SwitchExcludesTombstones ==
    \A d \in DOMAIN devices :
        LET dv == devices[d]
        IN  (/\ dv.syncCall.pending
             /\ dv.syncCall.origin = "switch"
             /\ dv.syncCall.out.status = StatusOK)
            => \A ws \in PendingOrders(dv) :
                   SyncEnds(dv, ws).workouts
                       = SelectSeq(ws, LAMBDA w : w.deleted_at = NullTime)

\* The records of an array.
Records(ws) == {ws[k] : k \in 1..Len(ws)}

\* C17 Client merge by id: whenever a sync of a device other than the one of switchProfile
\* has been answered 200, then once the response has been handled the local array holds
\* the local records whose id is not in the response, unchanged, and the records of the
\* response, and nothing else.
C17_ClientMergeById ==
    \A d \in DOMAIN devices :
        LET dv == devices[d]
        IN  (/\ dv.syncCall.pending
             /\ dv.syncCall.origin # "switch"
             /\ dv.syncCall.out.status = StatusOK)
            => \A ws \in PendingOrders(dv) :
                   Records(SyncEnds(dv, ws).workouts) = Records(Merge(dv.workouts, ws))

\* Every timer record a caller of the store may hand to UpsertWorkout.
AnyTimers ==
    { Workout(id, u, c, ca, ua, d) :
        id \in StoreIds, u \in Profiles, c \in StoreContents, ca \in {ZeroTime, 0, 1},
        ua \in {ZeroTime, 1}, d \in {NullTime, 1} }

\* C26 (created-at is preserved): no UpsertWorkout for a timer id that is stored changes the
\* stored created-at, whatever created-at the incoming record carries and whether the call
\* succeeds or fails; at the first insert of an id the stored created-at is the store's now
\* exactly when the record carries none, and the record's own otherwise.
C26_CreatedAtPreserved ==
    \A r \in AnyTimers, f \in Faults :
        LET up == UpsertWorkoutTx(workouts, workout_intervals, r, clock, f)
        IN  IF r.id \in DOMAIN workouts
               THEN up.workouts[r.id].created_at = workouts[r.id].created_at
               ELSE ~up.err =>
                        up.workouts[r.id].created_at
                            = (IF r.created_at = ZeroTime THEN clock ELSE r.created_at)

\* A stored timer is overwritten by a record with another created-at of its own and by one
\* with none, both calls succeed and change the row; and a timer with a created-at of its own
\* is inserted for the first time.
C26_Witness ==
    /\ \E r1, r2 \in AnyTimers :
           /\ r1.id \in DOMAIN workouts /\ r2.id = r1.id
           /\ r1.created_at \notin {ZeroTime, workouts[r1.id].created_at}
           /\ r2.created_at = ZeroTime /\ workouts[r1.id].created_at # clock
           /\ \A r \in {r1, r2} :
                  LET up == UpsertWorkoutTx(workouts, workout_intervals, r, clock, NoFault)
                  IN  ~up.err /\ up.workouts[r.id] # workouts[r.id]
    /\ \E r \in AnyTimers :
           /\ r.id \notin DOMAIN workouts /\ r.created_at # ZeroTime
           /\ ~UpsertWorkoutTx(workouts, workout_intervals, r, clock, NoFault).err

\* The ids of an interval list, in its order.
IdsOf(list) == [k \in 1..Len(list) |-> list[k].id]

\* C30 (dense interval positions): after every successful UpsertWorkout of a timer with n
\* intervals the stored positions of its intervals are exactly 0..n-1, and getIntervals
\* returns them in the order of the uploaded array, whatever positions the record carried.
C30_DensePositions ==
    \A r \in AnyTimers :
        LET up == UpsertWorkoutTx(workouts, workout_intervals, r, clock, NoFault)
            rows == IntervalRows(up.workout_intervals, r.id)
        IN  ~up.err =>
                /\ {up.workout_intervals[i].position : i \in rows} = 0..(Len(r.intervals) - 1)
                /\ \A list \in getIntervals(up.workout_intervals, r.id) :
                       IdsOf(list) = IdsOf(r.intervals)

\* C29 (per-record atomicity): when UpsertWorkout fails at any statement (begin, row write,
\* interval delete, any interval insert, commit), by a fault of the database or by a
\* constraint, the timer rows and the interval rows are exactly what they were before the
\* call; when it succeeds the interval rows of the timer are the complete uploaded list. No
\* outcome has a new row with an old or partial interval list.
C29_PerRecordAtomicity ==
    \A r \in AnyTimers, f \in Faults :
        LET up == UpsertWorkoutTx(workouts, workout_intervals, r, clock, f)
        IN  IF up.err
               THEN up.workouts = workouts /\ up.workout_intervals = workout_intervals
               ELSE StoredIntervals(up.workout_intervals, r.id)
                        = {IntervalContent(r.intervals[k]) : k \in 1..Len(r.intervals)}

\* A stored timer is overwritten by a record with another name and its two intervals: the
\* call fails at the second interval insert, after the row write, the delete and the first
\* insert; another call fails at its commit; and a third fails by the primary key of an
\* interval that belongs to another timer.
C29_Witness ==
    /\ \E r \in AnyTimers :
           /\ r.id \in DOMAIN workouts
           /\ r.name # workouts[r.id].name
           /\ Len(r.intervals) = 2
           /\ IntervalRows(workout_intervals, r.id) # {}
           /\ \A k \in 1..2 : r.intervals[k].id \in IntervalRows(workout_intervals, r.id)
           /\ UpsertWorkoutTx(workouts, workout_intervals, r, clock,
                              [step |-> "insert", index |-> 2]).err
           /\ UpsertWorkoutTx(workouts, workout_intervals, r, clock,
                              [step |-> "commit", index |-> 0]).err
           /\ ~UpsertWorkoutTx(workouts, workout_intervals, r, clock, NoFault).err
    /\ \E r \in AnyTimers :
           /\ r.id \in DOMAIN workouts
           /\ \E i \in DOMAIN workout_intervals :
                  workout_intervals[i].workout_id # r.id /\ i = r.intervals[1].id
           /\ UpsertWorkoutTx(workouts, workout_intervals, r, clock, NoFault).err

\* The stored timer r.id has the content of record r, upserted at time now: name, rounds,
\* deletion marker, updated-at (now when r carries none) and interval list.
HoldsContentOf(ws, ivs, r, now) ==
    /\ r.id \in DOMAIN ws
    /\ ws[r.id].name = r.name
    /\ ws[r.id].rounds = r.rounds
    /\ ws[r.id].deleted_at = r.deleted_at
    /\ ws[r.id].updated_at = (IF r.updated_at = ZeroTime THEN now ELSE r.updated_at)
    /\ StoredIntervals(ivs, r.id) = {IntervalContent(r.intervals[k]) : k \in 1..Len(r.intervals)}

\* The upload batches of two and three records with one id.
SameIdBatches ==
    { << r1, r2 >> : r1, r2 \in TimerInputs }
    \cup { << r1, r2, r3 >> : r1, r2, r3 \in FreshTimers }

\* C22 (last upsert wins): after a successful UpsertWorkout the stored content of the id is
\* that of the record just upserted, whatever was stored before; and after a sync that is
\* answered 200 and whose batch holds several records with one id, the stored content of that
\* id is that of the last record of the batch.
C22_LastUpsertWins ==
    /\ \A r \in TimerInputs, u \in Profiles :
           LET up == UpsertWorkout(workouts, workout_intervals, [r EXCEPT !.user_id = u], clock)
           IN  ~up.err => HoldsContentOf(up.workouts, up.workout_intervals, r, clock)
    /\ \A t \in ValidTokens, b \in SameIdBatches :
           \A o \in Sync(Server, "POST", t,
                         [valid |-> TRUE, last_synced_at |-> 0, workouts |-> b,
                          completions |-> << >>]) :
               o.status = StatusOK =>
                   HoldsContentOf(o.S.workouts, o.S.workout_intervals, b[Len(b)], clock)

\* A session uploads a batch of two records of the stored timer t1 whose names differ from
\* each other, the last one differing from the stored one too, and is answered 200.
C22_Witness ==
    \E t \in ValidTokens, r1, r2 \in TimerInputs :
        /\ r1.id \in DOMAIN workouts /\ r2.id = r1.id
        /\ r1.name # r2.name
        /\ workouts[r1.id].name = r1.name
        /\ \E o \in Sync(Server, "POST", t,
                          [valid |-> TRUE, last_synced_at |-> 0, workouts |-> << r1, r2 >>,
                           completions |-> << >>]) :
               o.status = StatusOK /\ o.S.workouts[r2.id].name = r2.name

\* The instant a watermark of w milliseconds names, on the scale of the stored timestamps.
InstantOf(w) == w * TicksPerMs

\* C25 (changed-since query): GetWorkoutsModifiedSince(profile, w) returns exactly the timers
\* stored under the profile whose updated-at is strictly later than w, deleted ones included
\* and none whose updated-at is w, each as stored and with all of its interval rows in
\* position order; GetCompletionsModifiedSince returns exactly the history entries stored
\* under the profile whose updated-at is strictly later than w, each as stored.
C25_ChangedSince ==
    \A P \in Profiles, w \in Watermarks :
        /\ \A res \in GetWorkoutsModifiedSince(workouts, workout_intervals, P, w) :
               /\ {r.id : r \in res}
                      = {id \in DOMAIN workouts : /\ workouts[id].user_id = P
                                                  /\ workouts[id].updated_at > InstantOf(w)}
               /\ \A r \in res :
                      /\ \A x \in res : x.id = r.id => x = r
                      /\ r.user_id = P
                      /\ r.name = workouts[r.id].name /\ r.rounds = workouts[r.id].rounds
                      /\ r.created_at = workouts[r.id].created_at
                      /\ r.updated_at = workouts[r.id].updated_at
                      /\ r.deleted_at = workouts[r.id].deleted_at
                      /\ Len(r.intervals) = Cardinality(IntervalRows(workout_intervals, r.id))
                      /\ {r.intervals[k].id : k \in 1..Len(r.intervals)}
                             = IntervalRows(workout_intervals, r.id)
                      /\ \A k \in 1..Len(r.intervals) :
                             /\ IntervalContent(r.intervals[k])
                                    \in StoredIntervals(workout_intervals, r.id)
                             /\ r.intervals[k].position
                                    = workout_intervals[r.intervals[k].id].position
                             /\ k > 1 => r.intervals[k - 1].position <= r.intervals[k].position
        /\ LET res == GetCompletionsModifiedSince(completions, P, w)
           IN  /\ {r.id : r \in res}
                      = {id \in DOMAIN completions : /\ completions[id].user_id = P
                                                     /\ completions[id].updated_at > InstantOf(w)}
               /\ \A r \in res :
                      /\ \A x \in res : x.id = r.id => x = r
                      /\ r = [completions[r.id] EXCEPT !.user_id = P] @@ [id |-> r.id]

\* A profile has a timer whose updated-at is the watermark, left out of the result, and a
\* deleted timer with two intervals and a deleted history entry whose updated-at is later,
\* both returned, while a watermark that returns the first timer exists too.
C25_Witness ==
    \E P \in Profiles, w \in Watermarks, a, b \in DOMAIN workouts, c \in DOMAIN completions :
        /\ workouts[a].user_id = P /\ workouts[b].user_id = P /\ completions[c].user_id = P
        /\ workouts[a].updated_at = InstantOf(w)
        /\ workouts[b].updated_at > InstantOf(w) /\ workouts[b].deleted_at # NullTime
        /\ completions[c].updated_at > InstantOf(w) /\ completions[c].deleted_at # NullTime
        /\ \E res \in GetWorkoutsModifiedSince(workouts, workout_intervals, P, w) :
               /\ \E r \in res : r.id = b /\ Len(r.intervals) = 2
               /\ \A r \in res : r.id # a
        /\ \E r \in GetCompletionsModifiedSince(completions, P, w) : r.id = c
        /\ \E res \in GetWorkoutsModifiedSince(workouts, workout_intervals, P, 0) :
               \E r \in res : r.id = a

\* Every history record a caller of the store may hand to UpsertCompletion.
AnyHistory ==
    { Completion(id, u, total, elapsed, done, sa, ca, ua, d) :
        id \in CompletionIds, u \in Profiles, total \in {60, 90}, elapsed \in {0, 60},
        done \in BOOLEAN, sa \in {ZeroTime, 1}, ca \in {NullTime, 1}, ua \in {ZeroTime, 1}, d \in {NullTime, 1} }

\* C27 (history immutability): UpsertCompletion for an id that is stored leaves started-at,
\* total duration and profile id of the entry (and its timer id and timer name) as they were,
\* sets elapsed duration, completed flag, completed-at, updated-at and deleted-at from the
\* record, and changes no other entry.
C27_HistoryImmutability ==
    \A r \in AnyHistory :
        r.id \in DOMAIN completions =>
            LET after == UpsertCompletion(completions, r, clock)
            IN  /\ DOMAIN after = DOMAIN completions
                /\ \A id \in DOMAIN completions \ {r.id} : after[id] = completions[id]
                /\ after[r.id].started_at = completions[r.id].started_at
                /\ after[r.id].total_duration = completions[r.id].total_duration
                /\ after[r.id].user_id = completions[r.id].user_id
                /\ after[r.id].workout_id = completions[r.id].workout_id
                /\ after[r.id].workout_name = completions[r.id].workout_name
                /\ after[r.id].elapsed_duration = r.elapsed_duration
                /\ after[r.id].completed = r.completed
                /\ after[r.id].completed_at = r.completed_at
                /\ after[r.id].deleted_at = r.deleted_at
                /\ after[r.id].updated_at
                       = (IF r.updated_at = ZeroTime THEN clock ELSE r.updated_at)

\* A stored entry is upserted with a record of another profile that carries another
\* started-at and another total duration, and whose elapsed duration, completed flag and
\* completed-at differ from the stored ones: the call changes the row.
C27_Witness ==
    \E r \in AnyHistory :
        /\ r.id \in DOMAIN completions
        /\ r.user_id # completions[r.id].user_id
        /\ r.started_at \notin {ZeroTime, completions[r.id].started_at}
        /\ r.total_duration # completions[r.id].total_duration
        /\ r.elapsed_duration # completions[r.id].elapsed_duration
        /\ r.completed # completions[r.id].completed
        /\ r.completed_at # completions[r.id].completed_at
        /\ UpsertCompletion(completions, r, clock)[r.id] # completions[r.id]

\* C28 (soft delete is profile-scoped): DeleteWorkout(P, id) and DeleteCompletion(P, id) leave
\* their table as it was when no record with the id is stored or the record is stored under
\* another profile; when it is stored under P they set deleted-at and updated-at of that
\* record to now, and leave its other columns and every other record as they were.
C28_SoftDeleteScoped ==
    \A P \in Profiles :
        /\ \A id \in StoreIds :
               LET after == DeleteWorkoutRow(workouts, P, id, clock)
               IN  IF id \in DOMAIN workouts /\ workouts[id].user_id = P
                      THEN /\ DOMAIN after = DOMAIN workouts
                           /\ \A x \in DOMAIN workouts \ {id} : after[x] = workouts[x]
                           /\ after[id].deleted_at = clock /\ after[id].updated_at = clock
                           /\ after[id] = [workouts[id] EXCEPT !.deleted_at = clock,
                                                               !.updated_at = clock]
                      ELSE after = workouts
        /\ \A id \in CompletionIds \cup {"c2"} :
               LET after == DeleteCompletionRow(completions, P, id, clock)
               IN  IF id \in DOMAIN completions /\ completions[id].user_id = P
                      THEN /\ DOMAIN after = DOMAIN completions
                           /\ \A x \in DOMAIN completions \ {id} : after[x] = completions[x]
                           /\ after[id] = [completions[id] EXCEPT !.deleted_at = clock,
                                                                  !.updated_at = clock]
                      ELSE after = completions

\* Two timers are stored under different profiles and a history entry under one of them, none
\* deleted and all stored before now: the delete by the owner marks the record, the delete by
\* the other profile and the delete of an id that is not stored find no row.
C28_Witness ==
    \E P, Q \in Profiles, a, b \in DOMAIN workouts, c \in DOMAIN completions :
        /\ P # Q /\ a # b
        /\ workouts[a].user_id = P /\ workouts[b].user_id = Q /\ completions[c].user_id = P
        /\ workouts[a].deleted_at = NullTime /\ workouts[a].updated_at < clock
        /\ completions[c].deleted_at = NullTime /\ completions[c].updated_at < clock
        /\ DeleteWorkoutRow(workouts, P, a, clock)[a].deleted_at = clock
        /\ DeleteWorkoutRow(workouts, Q, a, clock) = workouts
        /\ DeleteCompletionRow(completions, P, c, clock)[c].deleted_at = clock
        /\ DeleteCompletionRow(completions, Q, c, clock) = completions
        /\ "c2" \notin DOMAIN completions
        /\ DeleteCompletionRow(completions, P, "c2", clock) = completions

\* The login bucket of address a holds less than one token now, refill included.
Drained(a) ==
    /\ (a \o ":login") \in DOMAIN rlBuckets
    /\ rlBuckets[a \o ":login"].tokens + (clock - rlBuckets[a \o ":login"].lastRefill)
           < TokenUnit

\* What a response carries besides the server it leaves.
ResponseOf(o) == [f \in (DOMAIN o) \ {"S"} |-> o[f]]

\* C24 (rate limiting precedes authentication): a POST to auth/init, auth/test or profiles
\* from an address whose bucket is drained is answered 429 and nothing else: the response is
\* the same for every body, right password, wrong password or malformed, it carries no token
\* and no profile list, and the server after it differs from the server before in the
\* limiter's buckets alone (no session, no minted token, no table changed).
C24_RateLimitFirst ==
    \A a \in AuthAddrs :
        Drained(a) =>
            /\ \A req \in AuthRequests \cup {Malformed} :
                   LET o == AuthInit(Server, "POST", a, req)
                   IN  /\ ResponseOf(o) = [status |-> StatusTooManyRequests]
                       /\ o.S = [Server EXCEPT !.rlBuckets = o.S.rlBuckets]
            /\ \A req \in PasswordRequests \cup {Malformed} :
                   /\ LET o == TestConnection(Server, "POST", a, req)
                      IN  /\ ResponseOf(o) = [status |-> StatusTooManyRequests]
                          /\ o.S = [Server EXCEPT !.rlBuckets = o.S.rlBuckets]
                   /\ LET o == GetProfilesHandler(Server, "POST", a, req)
                      IN  /\ ResponseOf(o) = [status |-> StatusTooManyRequests]
                          /\ o.S = [Server EXCEPT !.rlBuckets = o.S.rlBuckets]

\* A server with a password and a session, and an address with a drained bucket: its login
\* with the right password and its login with a wrong one are both answered 429, while the
\* same two requests from an address that is admitted are answered 200 and 401.
C24_Witness ==
    /\ syncPasswordHash # ""
    /\ sessions # Empty
    /\ \E a, b \in AuthAddrs, good, bad \in AuthRequests :
           /\ Drained(a) /\ Allow(rlBuckets, b, clock).allowed
           /\ good.profile_name # "" /\ bad.profile_name # ""
           /\ good.password_hash = syncPasswordHash /\ bad.password_hash # syncPasswordHash
           /\ AuthInit(Server, "POST", a, good).status = StatusTooManyRequests
           /\ AuthInit(Server, "POST", a, bad).status = StatusTooManyRequests
           /\ AuthInit(Server, "POST", b, good).status = StatusOK
           /\ AuthInit(Server, "POST", b, bad).status = StatusUnauthorized

\* The number of requests of log[i..j] that were admitted (answered other than 429).
Admitted(log, i, j) ==
    Cardinality({k \in i..j : log[k].status # StatusTooManyRequests})

\* C23 (rate limit): for one client host, whose bucket is full at its first request, the
\* third of its first three login-class requests is answered 429 when the three arrive
\* within 2 seconds; and of the requests it sends in any stretch of its run at most
\* 2 + (seconds elapsed / 2) are admitted.
C23_RateLimit ==
    \A h \in DOMAIN devices :
        LET log == devices[h].attempts
        IN  /\ (Len(log) >= 3 /\ log[3].at - log[1].at < 2 * TicksPerSecond) =>
                   log[3].status = StatusTooManyRequests
            /\ \A i, j \in 1..Len(log) :
                   i <= j =>
                       2 * TicksPerSecond * Admitted(log, i, j)
                           <= 4 * TicksPerSecond + (log[j].at - log[i].at)

\* The objects of the web client. A timer as createWorkout, addInterval and updateWorkout
\* make it: createdAt and updatedAt are Date.now(), milliseconds; an interval has no position.
JsInterval(id, name, duration) == [id |-> id, name |-> name, duration |-> duration,
                                   color |-> "#ff6b6b"]

JsWorkouts ==
    { [id |-> id, name |-> "T", rounds |-> 2, intervals |-> ivs, createdAt |-> 1,
       updatedAt |-> u] :
        id \in WorkoutIds, u \in {1, 2},
        ivs \in { << >>, << JsInterval("i1", "Interval 1", 45),
                            JsInterval("i2", "Interval 2", 45) >> } }

\* A history entry as IntervalRunner makes it when a run starts, and as it is when the run
\* has ended.
JsCompletions ==
    { [id |-> id, workoutId |-> "t1", workoutName |-> "T", totalDuration |-> 90,
       elapsedDuration |-> e, completed |-> (e = 90), startedAt |-> 1,
       completedAt |-> IF e = 90 THEN 2 ELSE NullTime] :
        id \in CompletionIds, e \in {0, 90} }

\* JSON.stringify of a timer of the client, decoded into models.Workout: a key of the JSON
\* sets the field whose tag it is; createdAt and updatedAt are the tags of no field, and an
\* interval without the key position has position 0.
UploadedWorkout(js) ==
    [id |-> js.id, user_id |-> "", name |-> js.name, rounds |-> js.rounds,
     intervals |-> [k \in 1..Len(js.intervals) |->
                       [id |-> js.intervals[k].id, name |-> js.intervals[k].name,
                        duration |-> js.intervals[k].duration,
                        color |-> js.intervals[k].color, position |-> 0]],
     created_at |-> ZeroTime, updated_at |-> ZeroTime, deleted_at |-> NullTime]

\* JSON.stringify of a history entry of the client, decoded into models.Completion: id and
\* completed are tags of fields, the other keys are not.
UploadedCompletion(js) ==
    [id |-> js.id, user_id |-> "", workout_id |-> "", workout_name |-> "",
     total_duration |-> 0, elapsed_duration |-> 0, completed |-> js.completed,
     started_at |-> ZeroTime, completed_at |-> NullTime, updated_at |-> ZeroTime,
     deleted_at |-> NullTime]

\* response.json() of a models.Workout: the object has the keys of the JSON; deleted_at is
\* left out of the JSON when nil.
ParseWorkout(r) ==
    LET o == [id |-> r.id, user_id |-> r.user_id, name |-> r.name, rounds |-> r.rounds,
              intervals |-> r.intervals, created_at |-> r.created_at,
              updated_at |-> r.updated_at]
    IN  IF r.deleted_at = NullTime THEN o ELSE o @@ [deleted_at |-> r.deleted_at]

\* response.json() of a models.Completion.
ParseCompletion(r) ==
    LET o == [id |-> r.id, user_id |-> r.user_id, workout_id |-> r.workout_id,
              workout_name |-> r.workout_name, total_duration |-> r.total_duration,
              elapsed_duration |-> r.elapsed_duration, completed |-> r.completed,
              started_at |-> r.started_at, completed_at |-> r.completed_at,
              updated_at |-> r.updated_at]
    IN  IF r.deleted_at = NullTime THEN o ELSE o @@ [deleted_at |-> r.deleted_at]

\* The arrays a response may carry for the records rs, each parsed by parse.
ParsedArrays(rs, parse(_)) ==
    LET n == Cardinality(rs)
    IN  { [k \in 1..n |-> parse(f[k])] :
            f \in {g \in [1..n -> rs] : \A j, k \in 1..n : j # k => g[j] # g[k]} }

\* Object b has every one of the keys F with the value it has in object a.
SameFields(a, b, F) == \A f \in F : f \in DOMAIN b /\ b[f] = a[f]

\* The record with the id of js in the array has the values of js under the keys F.
KeptIn(array, js, F) ==
    \E k \in 1..Len(array) : array[k].id = js.id /\ SameFields(js, array[k], F)

\* The intervals of the record with the id of js in the array are those of js, one by one.
IntervalsKeptIn(array, js) ==
    \E k \in 1..Len(array) :
        /\ array[k].id = js.id
        /\ Len(array[k].intervals) = Len(js.intervals)
        /\ \A i \in 1..Len(js.intervals) :
               SameFields(js.intervals[i], array[k].intervals[i],
                          {"id", "name", "duration", "color"})

\* C21 (loss-free round trip of own writes): a client uploads a timer or a history entry of
\* its own with a sync that is answered 200 and merges the response by id: the local record
\* then has the values it had before the upload (timer: name, rounds, intervals, createdAt,
\* updatedAt; history entry: workoutId, workoutName, totalDuration, elapsedDuration,
\* completed, startedAt, completedAt), and merging the same response again changes nothing.
C21_OwnWriteRoundTrip ==
    \A t \in ValidTokens :
        /\ \A js \in JsWorkouts :
               \A o \in Sync(Server, "POST", t,
                             [valid |-> TRUE, last_synced_at |-> 0,
                              workouts |-> << UploadedWorkout(js) >>,
                              completions |-> << >>]) :
                   o.status = StatusOK =>
                       \A server \in ParsedArrays(o.workouts, ParseWorkout) :
                           LET merged == Merge(<< js >>, server)
                           IN  /\ KeptIn(merged, js,
                                         {"name", "rounds", "createdAt", "updatedAt"})
                               /\ IntervalsKeptIn(merged, js)
                               /\ Merge(merged, server) = merged
        /\ \A js \in JsCompletions :
               \A o \in Sync(Server, "POST", t,
                             [valid |-> TRUE, last_synced_at |-> 0, workouts |-> << >>,
                              completions |-> << UploadedCompletion(js) >>]) :
                   o.status = StatusOK =>
                       \A server \in ParsedArrays(o.completions, ParseCompletion) :
                           LET merged == Merge(<< js >>, server)
                           IN  /\ KeptIn(merged, js,
                                         {"workoutId", "workoutName", "totalDuration",
                                          "elapsedDuration", "completed", "startedAt",
                                          "completedAt"})
                               /\ Merge(merged, server) = merged

\* The texts of the form 'Bearer <token>': the word Bearer, one space, and a token that is
\* not empty and has no space in it.
IsBearer(text) ==
    /\ Len(text) >= 3
    /\ text[1] = "Bearer"
    /\ text[2] = Space
    /\ \A k \in 3..Len(text) : text[k] # Space

BearerToken(text) == SubSeq(text, 3, Len(text))

\* C39 (token extraction): the token extracted from a request, sent or not, is the token of the
\* Authorization header when the header has the form 'Bearer <token>', whatever the query
\* parameter; it is the token query parameter when the request has no Authorization header
\* value; and it is no token when the header has any other form.
C39_TokenExtraction ==
    LET extracted == { [request |-> r, token |-> extractToken(r)] : r \in HttpRequests }
                     \cup { [request |-> devices[c].request, token |-> devices[c].token] :
                              c \in {x \in DOMAIN devices : devices[x].sent} }
    IN  \A e \in extracted :
            LET auth == HeaderGet(e.request.header)
            IN  /\ IsBearer(auth) => e.token = BearerToken(auth)
                /\ auth = << >> => e.token = e.request.query
                /\ (auth # << >> /\ ~IsBearer(auth)) => e.token = << >>

\* A sync was answered 200 to a request whose header carried the token of a session while
\* its query parameter carried another token.
C39_Witness ==
    \E c \in DOMAIN devices :
        /\ devices[c].sent
        /\ devices[c].status = StatusOK
        /\ IsBearer(HeaderGet(devices[c].request.header))
        /\ devices[c].request.query # << >>
        /\ devices[c].request.query # devices[c].token
        /\ SessionToken(devices[c].token) \in DOMAIN sessions

\* The calls of UpdateLastSyncTime for a profile, in the order they were made.
CallsFor(userID) ==
    SelectSeq(devices[MetadataCaller].calls, LAMBDA c : c.userID = userID)

\* C40 (server watermark bookkeeping): GetLastSyncTime of a profile returns 0 when
\* UpdateLastSyncTime was never called for the profile and otherwise the value of the last
\* call for it; a call for one profile leaves what GetLastSyncTime returns for every other
\* profile unchanged.
C40_WatermarkBookkeeping ==
    /\ \A u \in Profiles :
           LET calls == CallsFor(u)
           IN  GetLastSyncTime(sync_metadata, u) =
                   IF Len(calls) = 0 THEN 0 ELSE calls[Len(calls)].syncTime
    /\ \A u \in Profiles, t \in SyncTimes :
           LET md == UpdateLastSyncTime(sync_metadata, u, t)
           IN  /\ GetLastSyncTime(md, u) = t
               /\ \A other \in Profiles \ {u} :
                      GetLastSyncTime(md, other) = GetLastSyncTime(sync_metadata, other)

\* The watermark of one profile was set twice, to different values the second of which is
\* not 0, while the watermark of another profile was never set.
C40_Witness ==
    \E u, other \in Profiles :
        LET calls == CallsFor(u)
        IN  /\ Len(calls) >= 2
            /\ calls[Len(calls)].syncTime # calls[Len(calls) - 1].syncTime
            /\ calls[Len(calls)].syncTime # 0
            /\ Len(CallsFor(other)) = 0
            /\ GetLastSyncTime(sync_metadata, other) = 0

\* The watermarks of the changed-since queries put to both stores, in milliseconds.
BackendWatermarks == {0, 1, 1000, 1200, 1999, 2000, 3000}

\* C38 (backend equivalence): after the same calls, the changed-since query for timers
\* selects the same records in the embedded-file store and in the remote managed store, for
\* every profile and every watermark.
C38_BackendEquivalence ==
    \A u \in Profiles, since \in BackendWatermarks :
        WorkoutsModifiedSinceIds(workouts, u, since) =
            TursoWorkoutsModifiedSinceIds(devices[Turso].workouts, u, since)

\* The tombstones of the server: the timers and the history entries with deleted_at set.
DeletedTimers(S) == {id \in DOMAIN S.workouts : S.workouts[id].deleted_at # NullTime}

DeletedHistory(S) == {id \in DOMAIN S.completions : S.completions[id].deleted_at # NullTime}

\* C32 (tombstones are permanent): a timer or history entry that has deleted_at set on the
\* server still has it set after any sync request, in particular after the upload of a
\* device that still holds the record without a deleted_at.
C32_TombstonesPermanent ==
    \A t \in Tokens, p \in SyncPayloads({0}, FreshTimerBatches, FreshHistoryBatches) :
        \A o \in Sync(Server, "POST", t, p) :
            /\ DeletedTimers(Server) \subseteq DeletedTimers(o.S)
            /\ DeletedHistory(Server) \subseteq DeletedHistory(o.S)

\* The interval rows UpsertWorkout writes for a timer record: the rows of its list with the
\* positions of the insert loop.
RowsOf(workout) == InsertIntervals(Empty, workout.id, workout.intervals, 1).tbl

\* The stored timer is the upload workout: the row has its name and rounds and the interval
\* rows of the timer are exactly the rows of its list.
StoredIs(workout) ==
    /\ workout.id \in DOMAIN workouts
    /\ workouts[workout.id].name = workout.name
    /\ workouts[workout.id].rounds = workout.rounds
    /\ LET rows == RowsOf(workout)
       IN  /\ IntervalRows(workout_intervals, workout.id) = DOMAIN rows
           /\ \A i \in DOMAIN rows : workout_intervals[i] = rows[i]

\* C31 (no interleaved interval replacement): when the upserts of two requests for the same
\* timer id have both returned, the stored row and the stored interval list are those of one
\* and the same of the two uploads, never a mixture.
C31_NoInterleavedReplacement ==
    (\A r \in RequestIds : devices[r].pc = "done") =>
        ((\A r, q \in RequestIds : devices[r].workout.id = devices[q].workout.id) =>
            (\E r \in RequestIds : ~devices[r].err /\ StoredIs(devices[r].workout)))

\* Two upserts of the same timer with different interval lists have both returned, and one
\* of them was called while the transaction of the other was open.
C31_Witness ==
    /\ \A r \in RequestIds : devices[r].pc = "done" /\ ~devices[r].err
    /\ devices["r1"].workout.id = devices["r2"].workout.id
    /\ devices["r1"].workout.intervals # devices["r2"].workout.intervals
    /\ \E r \in RequestIds : devices[r].overlapped

\* The ids of the records of an array.
ArrayIds(ws) == {ws[k].id : k \in 1..Len(ws)}

\* The records of the array ws are all in the replica of the device dv.
MergedInto(ws, dv) ==
    \A k \in 1..Len(ws) : \E j \in 1..Len(dv.workouts) : dv.workouts[j] = ws[k]

\* C33 (the watermark advances only with a merge): whenever the response to a sync of a
\* device is a success, so that the device stores the watermark of the response, the timers
\* of that response are in the local replica once the sync has ended; this holds whichever
\* caller started the sync: the auto-sync effect, initializeSync, or the follow-up of a
\* collision.
C33_WatermarkWithMerge ==
    \A d \in DOMAIN devices :
        LET dv == devices[d]
        IN  (dv.syncCall.pending /\ dv.syncCall.out.status = StatusOK
             /\ dv.syncCall.origin \in {"auto", "init", "owed"}) =>
                \A ws \in PendingOrders(dv) :
                    LET after == SyncEnds(dv, ws)
                    IN  /\ after.lastSyncTime = dv.syncCall.out.last_synced_at
                        /\ MergedInto(ws, after)

\* Request r was answered 200.
Answered(r) == devices[r].pc = "done" /\ devices[r].status = StatusOK

\* C34 (no missed record under concurrent reconciles): when two sync requests of one profile
\* that overlapped have both been answered, every timer one of them wrote is in the response
\* to the other, or its stored updated_at is strictly after the watermark returned to the
\* other.
C34_NoMissedRecord ==
    \A r, q \in RequestIds :
        (r # q /\ Answered(r) /\ Answered(q) /\ devices[r].UserID = devices[q].UserID
         /\ (r \in devices[q].missedBy \/ q \in devices[r].missedBy)) =>
            \A id \in devices[q].wrote :
                \/ \E w \in devices[r].workouts : w.id = id
                \/ workouts[id].updated_at > TimeOfUnixMilli(devices[r].last_synced_at)

\* The arrays device d uploads when one of its pending timers fires now and the sync it
\* calls sends a request: the request carries the token the device holds now.
UploadsNow(d) ==
    LET dv == devices[d]
        auto == UNION { SyncServiceSync([dv EXCEPT !.debounce = @ \ {tm}, !.burst = 0],
                                        Server, "auto", tm.workouts, tm.workouts, Due(d)) :
                        tm \in dv.debounce }
        owed == IF dv.syncTimeout.pending
                   THEN SyncServiceSync([dv EXCEPT !.syncTimeout = NoCall], Server, "owed",
                                        dv.syncTimeout.workouts, << >>, Due(d))
                   ELSE {}
    IN  { r.dv.syncCall.workouts : r \in {x \in auto \cup owed : x.dv.flights > dv.flights} }

\* C35 (no upload of the old profile under the new session): once switchProfile has obtained
\* the token of bob (on this device the session of bob is always one switchProfile obtained),
\* no sync request of the device carrying that token uploads a timer that was in the replica
\* before: every uploaded timer was received from bob's data or created under bob's session.
C35_NoOldProfileUpload ==
    \A d \in DOMAIN devices :
        (devices[d].userId = "bob" /\ devices[d].token # NoToken) =>
            \A ws \in UploadsNow(d) : \A k \in 1..Len(ws) : ws[k].owner = "bob"

\* The id of a timer the user creates while a sync is in flight: a fresh UUID.
FlightIds == {"t9"}

\* The device after the user has created timer id on it: createWorkout.
WithCreated(dv, id) == UserSets(dv, Append(dv.workouts, CreatedWorkout(id, dv.userId)))

\* The device after the user has given its k-th timer new content: updateWorkout.
WithUpdated(dv, k, c) ==
    UserSets(dv, [dv.workouts EXCEPT ![k] = [@ EXCEPT !.name = c.name, !.rounds = c.rounds,
                                                      !.intervals = c.intervals]])

\* The array holds the record w.
Holds(ws, w) == \E j \in 1..Len(ws) : ws[j] = w

\* C36 (local edits made during a sync survive the merge): while a sync of the auto-sync
\* effect, of initializeSync or of a follow-up is in flight and will be answered 200, a timer
\* the user creates or edits now is in the local replica, with its new content, once the
\* response has been handled, unless its id is in the response.
C36_EditsSurviveMerge ==
    \A d \in DOMAIN devices :
        LET dv == devices[d]
        IN  (/\ dv.syncCall.pending
             /\ dv.syncCall.origin # "switch"
             /\ dv.syncCall.out.status = StatusOK) =>
                /\ \A id \in FlightIds :
                       LET edited == WithCreated(dv, id)
                       IN  \A ws \in PendingOrders(edited) :
                               id \notin ArrayIds(ws) =>
                                   Holds(SyncEnds(edited, ws).workouts,
                                         CreatedWorkout(id, dv.userId))
                /\ \A k \in 1..Len(dv.workouts), c \in TimerContents :
                       LET edited == WithUpdated(dv, k, c)
                       IN  \A ws \in PendingOrders(edited) :
                               dv.workouts[k].id \notin ArrayIds(ws) =>
                                   Holds(SyncEnds(edited, ws).workouts, edited.workouts[k])

\* C37 Fresh watermark after re-authentication: whenever the response to the auth/init call
\* of initializeSync arrives at a device that holds no session (its last session ended by
\* logout or by expiry, on the same page or before a reload), that has a backend URL and no
\* sync in flight, the sync request that initializeSync then sends carries watermark 0.
C37_FreshWatermark ==
    \A d \in DOMAIN devices :
        LET dv == devices[d]
        IN  (/\ dv.authCall.pending
             /\ dv.authCall.origin = "init"
             /\ dv.authCall.out.status = StatusOK
             /\ dv.token = NoToken
             /\ dv.backendURL
             /\ ~Busy(dv)) =>
                SyncRequest(dv, dv.authCall.closure).last_synced_at = 0

====
